---- MODULE Spec2Model ----
(***************************************************************************)
(* The network-address and connection-establishment layer of the client:   *)
(* CNetAddr / CService values, the proxy registry, the SOCKS5 client       *)
(* handshake (Socks5) and the dispatcher ConnectSocket /                   *)
(* ConnectSocketByName / ConnectSocketDirectly.                            *)
(*                                                                         *)
(* Six specifications: SpecSocks5 (the handshake on its own), Spec (one    *)
(* dialing call beside a thread that sets proxies), SpecRegistry (threads  *)
(* calling the registry under cs_proxyInfos), SpecCalls (the lookup,       *)
(* parsing, classification, grouping, reachability and comparison          *)
(* functions called on their own), SpecAddr (operations applied to one     *)
(* address object) and SpecTime (AddTimeData called with the clocks of     *)
(* the peers).                                                             *)
(*                                                                         *)
(* The build modelled is the POSIX one with ENABLE_I2PSAM defined and      *)
(* assertions enabled.  Strings and buffers are sequences of byte values   *)
(* 0..255 (a C string is the sequence of its character codes).             *)
(***************************************************************************)
EXTENDS Integers, Sequences, FiniteSets, TLC

(***************************************************************************)
(* Bytes and byte strings                                                  *)
(***************************************************************************)
Byte == 0..255

Min(a, b) == IF a < b THEN a ELSE b

Max(a, b) == IF a < b THEN b ELSE a

\* s[from..from+n-1], the analogue of memcpy/substr on a byte string
Sub(s, from, n) == [i \in 1..n |-> s[from + i - 1]]

\* the first n elements of s
Take(s, n) == [i \in 1..n |-> s[i]]

\* memcmp(a + offA, b + offB, n) == 0
MemEq(a, offA, b, offB, n) == \A i \in 1..n : a[offA + i] = b[offB + i]

Zeros(n) == [i \in 1..n |-> 0]

IsPrefix(p, s) == Len(p) <= Len(s) /\ \A i \in 1..Len(p) : p[i] = s[i]

(***************************************************************************)
(* enum Network and the fixed prefixes                                     *)
(***************************************************************************)
NET_UNROUTABLE == 0

NET_IPV4 == 1

NET_IPV6 == 2

NET_TOR == 3

NET_NATIVE_I2P == 4

NET_MAX == 5

Networks == NET_UNROUTABLE..(NET_MAX - 1)

\* size of the base64 text of a native I2P destination
NATIVE_I2P_DESTINATION_SIZE == 516

pchIPv4 == <<0, 0, 0, 0, 0, 0, 0, 0, 0, 0, 255, 255>>

pchOnionCat == <<253, 135, 216, 126, 235, 67>>

pchGarlicCat == <<253, 96, 219, 77, 221, 181>>

pchAAAA == <<65, 65, 65, 65>>

(***************************************************************************)
(* CNetAddr: ip[16] and i2pDest[NATIVE_I2P_DESTINATION_SIZE];              *)
(* CService adds port.  The operators below take either record.            *)
(*                                                                         *)
(* The field i2pDest holds the buffer without its trailing zero bytes (an  *)
(* all-zero buffer is <<>>); I2pBuf gives the buffer itself.  Two buffers  *)
(* are equal iff their fields are.                                         *)
(***************************************************************************)
\* a buffer of NATIVE_I2P_DESTINATION_SIZE bytes as the field holds it
TrimZeros(buf) ==
    LET nz == {i \in 1..Len(buf) : buf[i] # 0}
        n == IF nz = {} THEN 0 ELSE CHOOSE i \in nz : \A j \in nz : j <= i
    IN  Take(buf, n)

\* the i2pDest buffer of an address
I2pBuf(a) ==
    [i \in 1..NATIVE_I2P_DESTINATION_SIZE |->
        IF i <= Len(a.i2pDest) THEN a.i2pDest[i] ELSE 0]

\* CNetAddr::Init / CNetAddr::CNetAddr(): both buffers zeroed
CNetAddrInit == [ip |-> Zeros(16), i2pDest |-> <<>>]

\* CNetAddr(const struct in_addr&): mapped prefix + 4 address bytes
CNetAddrFromIPv4(b4) == [ip |-> pchIPv4 \o b4, i2pDest |-> <<>>]

\* CNetAddr(const struct in6_addr&)
CNetAddrFromIPv6(b16) == [ip |-> b16, i2pDest |-> <<>>]

\* CService(const CNetAddr&, unsigned short)
CService(a, portIn) == [ip |-> a.ip, i2pDest |-> a.i2pDest, port |-> portIn]

\* CService::CService(): CNetAddr() and port 0
CServiceInit == CService(CNetAddrInit, 0)

\* (CNetAddr)service: the address part
AsNetAddr(s) == [ip |-> s.ip, i2pDest |-> s.i2pDest]

GetPort(s) == s.port

\* GetByte(n) is ip[15-n] (0-based in the source)
GetByte(a, n) == a.ip[16 - n]

IsIPv4(a) == MemEq(a.ip, 0, pchIPv4, 0, 12)

IsTor(a) == MemEq(a.ip, 0, pchOnionCat, 0, 6)

IsI2P(a) == MemEq(a.ip, 0, pchGarlicCat, 0, 6)

IsIPv6(a) == ~IsIPv4(a) /\ ~IsTor(a) /\ ~IsI2P(a)

IsNativeI2P(a) ==
    MemEq(I2pBuf(a), NATIVE_I2P_DESTINATION_SIZE - 4, pchAAAA, 0, 4)

\* empty string when the first byte is 0, else the whole buffer
GetI2pDestination(a) == IF I2pBuf(a)[1] # 0 THEN I2pBuf(a) ELSE <<>>

MutIsRFC1918(a) == IsIPv4(a) /\ GetByte(a, 3) = 10

IsRFC1918(a) ==
    IsIPv4(a) /\ (\/ GetByte(a, 3) = 10
                  \/ (GetByte(a, 3) = 192 /\ GetByte(a, 2) = 168)
                  \/ (GetByte(a, 3) = 172 /\ GetByte(a, 2) >= 16 /\ GetByte(a, 2) <= 31))

IsRFC3927(a) == IsIPv4(a) /\ GetByte(a, 3) = 169 /\ GetByte(a, 2) = 254

MutIsRFC3849(a) == GetByte(a, 15) = 32 /\ GetByte(a, 14) = 1

IsRFC3849(a) ==
    GetByte(a, 15) = 32 /\ GetByte(a, 14) = 1 /\ GetByte(a, 13) = 13 /\ GetByte(a, 12) = 184

IsRFC3964(a) == GetByte(a, 15) = 32 /\ GetByte(a, 14) = 2

IsRFC6052(a) == MemEq(a.ip, 0, <<0, 100, 255, 155, 0, 0, 0, 0, 0, 0, 0, 0>>, 0, 12)

IsRFC4380(a) ==
    GetByte(a, 15) = 32 /\ GetByte(a, 14) = 1 /\ GetByte(a, 13) = 0 /\ GetByte(a, 12) = 0

IsRFC4862(a) == MemEq(a.ip, 0, <<254, 128, 0, 0, 0, 0, 0, 0>>, 0, 8)

\* (GetByte(15) & 0xFE) == 0xFC
IsRFC4193(a) == GetByte(a, 15) - (GetByte(a, 15) % 2) = 252

IsRFC6145(a) == MemEq(a.ip, 0, <<0, 0, 0, 0, 0, 0, 0, 0, 255, 255, 0, 0>>, 0, 12)

\* (GetByte(12) & 0xF0) == 0x10
IsRFC4843(a) ==
    GetByte(a, 15) = 32 /\ GetByte(a, 14) = 1 /\ GetByte(a, 13) = 0
    /\ GetByte(a, 12) - (GetByte(a, 12) % 16) = 16

\* sMyDest is the configured -i2p.mydestination.publickey ("" when unset)
IsLocal(a, sMyDest) ==
    IF IsI2P(a) THEN sMyDest = GetI2pDestination(a)
    ELSE \/ IsIPv4(a) /\ (GetByte(a, 3) = 127 \/ GetByte(a, 3) = 0)
         \/ a.ip = Zeros(15) \o <<1>>

IsValid(a) ==
    IF IsI2P(a) THEN IsNativeI2P(a)
    ELSE /\ ~MemEq(a.ip, 0, pchIPv4, 3, 9)
         /\ a.ip # Zeros(16)
         /\ ~IsRFC3849(a)
         /\ ~(IsIPv4(a) /\ Sub(a.ip, 13, 4) = <<255, 255, 255, 255>>)
         /\ ~(IsIPv4(a) /\ Sub(a.ip, 13, 4) = <<0, 0, 0, 0>>)

MutIsRoutable(a, sMyDest) ==
    IsValid(a) /\ ~(\/ IsRFC1918(a)
                     \/ IsRFC3927(a)
                     \/ IsRFC4862(a)
                     \/ (IsRFC4193(a) /\ ~(IsTor(a) \/ IsI2P(a)))
                     \/ IsRFC4843(a)
                     \/ IsLocal(a, sMyDest))

IsRoutable(a, sMyDest) ==
    IsValid(a) /\ ~(\/ IsRFC3927(a)
                     \/ IsRFC4862(a)
                     \/ (IsRFC4193(a) /\ ~(IsTor(a) \/ IsI2P(a)))
                     \/ IsRFC4843(a)
                     \/ IsLocal(a, sMyDest))

MutGetNetwork(a, sMyDest) ==
    IF IsIPv4(a) THEN NET_IPV4
    ELSE IF IsTor(a) THEN NET_TOR
    ELSE IF IsI2P(a) THEN NET_NATIVE_I2P
    ELSE NET_IPV6

GetNetwork(a, sMyDest) ==
    IF ~IsRoutable(a, sMyDest) THEN NET_UNROUTABLE
    ELSE IF IsIPv4(a) THEN NET_IPV4
    ELSE IF IsTor(a) THEN NET_TOR
    ELSE IF IsI2P(a) THEN NET_NATIVE_I2P
    ELSE NET_IPV6

(***************************************************************************)
(* State                                                                   *)
(***************************************************************************)
(***************************************************************************)
(* Text forms                                                              *)
(***************************************************************************)
RECURSIVE DecStr(_)
\* "%u"
DecStr(n) == IF n < 10 THEN <<48 + n>> ELSE DecStr(n \div 10) \o <<48 + (n % 10)>>

HexDigit(d) == IF d < 10 THEN 48 + d ELSE 87 + d

RECURSIVE HexStr(_)
\* "%x"
HexStr(n) == IF n < 16 THEN <<HexDigit(n)>> ELSE HexStr(n \div 16) \o <<HexDigit(n % 16)>>

\* inet_ntop(AF_INET): dotted quad of 4 bytes
DottedQuad(b4) ==
    DecStr(b4[1]) \o <<46>> \o DecStr(b4[2]) \o <<46>> \o DecStr(b4[3]) \o <<46>> \o DecStr(b4[4])

\* the 16-bit words of 16 bytes, indexed 0..7
Words16(b16) == [i \in 0..7 |-> b16[2 * i + 1] * 256 + b16[2 * i + 2]]

\* length of the run of zero words starting at word i
RECURSIVE ZeroRun(_, _)
ZeroRun(w, i) == IF i > 7 \/ w[i] # 0 THEN 0 ELSE 1 + ZeroRun(w, i + 1)

\* inet_ntop(AF_INET6) as the C library formats it: the first longest run of two
\* or more zero words becomes "::", an IPv4-compatible or mapped tail is dotted
Inet6Text(b16) ==
    LET w == Words16(b16)
        runs == {i \in 0..7 : (i = 0 \/ w[i - 1] # 0) /\ ZeroRun(w, i) >= 2}
        base == IF runs = {} THEN -1
                ELSE CHOOSE i \in runs :
                        \A j \in runs : ZeroRun(w, j) < ZeroRun(w, i)
                                        \/ (ZeroRun(w, j) = ZeroRun(w, i) /\ i <= j)
        len == IF base = -1 THEN 0 ELSE ZeroRun(w, base)
        v4tail == base = 0 /\ (len = 6 \/ (len = 7 /\ w[7] # 1) \/ (len = 5 /\ w[5] = 65535))
        Piece[i \in 0..8] ==
            IF i = 8 THEN (IF base # -1 /\ base + len = 8 THEN <<58>> ELSE <<>>)
            ELSE IF base # -1 /\ i >= base /\ i < base + len
                 THEN (IF i = base THEN <<58>> ELSE <<>>) \o Piece[i + 1]
            ELSE IF i = 6 /\ v4tail
                 THEN <<58>> \o DottedQuad(Sub(b16, 13, 4))
                      \o (IF base # -1 /\ base + len = 8 THEN <<58>> ELSE <<>>)
            ELSE (IF i # 0 THEN <<58>> ELSE <<>>) \o HexStr(w[i]) \o Piece[i + 1]
    IN  Piece[0]

\* bit k (0-based, most significant first) of a byte string, 0 past its end
BitAt(bytes, k) ==
    IF k >= 8 * Len(bytes) THEN 0
    ELSE (bytes[(k \div 8) + 1] \div (2 ^ (7 - (k % 8)))) % 2

\* pbase32 = "abcdefghijklmnopqrstuvwxyz234567"
Base32Char(v) == IF v < 26 THEN 97 + v ELSE 24 + v

\* EncodeBase32: 5 bits a character, padded with '=' to a multiple of 8
EncodeBase32(bytes) ==
    LET nChars == (8 * Len(bytes) + 4) \div 5
        nTotal == ((nChars + 7) \div 8) * 8
    IN  [j \in 1..nTotal |->
            IF j > nChars THEN 61
            ELSE Base32Char(16 * BitAt(bytes, 5 * (j - 1)) + 8 * BitAt(bytes, 5 * (j - 1) + 1)
                            + 4 * BitAt(bytes, 5 * (j - 1) + 2) + 2 * BitAt(bytes, 5 * (j - 1) + 3)
                            + BitAt(bytes, 5 * (j - 1) + 4))]

\* ".onion"
StrDotOnion == <<46, 111, 110, 105, 111, 110>>

AF_INET == "AF_INET"

AF_INET6 == "AF_INET6"

\* CService::GetSockAddr: <<sockaddr>> on success, <<>> when the address has no
\* socket address (Tor, I2P)
GetSockAddr(s) ==
    IF IsIPv4(s) THEN <<[family |-> AF_INET, addr |-> Sub(s.ip, 13, 4), port |-> s.port]>>
    ELSE IF IsIPv6(s) THEN
        (IF IsNativeI2P(s) THEN <<>>
         ELSE <<[family |-> AF_INET6, addr |-> s.ip, port |-> s.port]>>)
    ELSE <<>>

\* getnameinfo(..., NI_NUMERICHOST) of a socket address
NumericHost(sa) == IF sa.family = AF_INET THEN DottedQuad(sa.addr) ELSE Inet6Text(sa.addr)

\* strprintf("%x:%x:%x:%x:%x:%x:%x:%x", ...) of the 8 words
HexWords(b16) ==
    LET w == Words16(b16)
        Piece[i \in 0..7] ==
            HexStr(w[i]) \o (IF i = 7 THEN <<>> ELSE <<58>> \o Piece[i + 1])
    IN  Piece[0]

MutToStringIP(a) == EncodeBase32(Sub(a.ip, 6, 10)) \o StrDotOnion

\* CNetAddr::ToStringIP of an address without the I2P marker (an address with
\* the marker gives its .b32.i2p name, computed outside this file)
ToStringIP(a) ==
    IF IsTor(a) THEN EncodeBase32(Sub(a.ip, 7, 10)) \o StrDotOnion
    ELSE IF GetSockAddr(CService(a, 0)) # <<>>
         THEN NumericHost(GetSockAddr(CService(a, 0))[1])
    ELSE IF IsIPv4(a)
         THEN DottedQuad(<<GetByte(a, 3), GetByte(a, 2), GetByte(a, 1), GetByte(a, 0)>>)
    ELSE HexWords(a.ip)

(***************************************************************************)
(* Splitting "host:port" and resolving a name                              *)
(***************************************************************************)
\* the first index from i on whose character is not in chars; Len(s) + 1 if none
SkipWhile(s, i, chars) ==
    CHOOSE j \in i..(Len(s) + 1) :
        /\ j = Len(s) + 1 \/ s[j] \notin chars
        /\ \A k \in i..(j - 1) : s[k] \in chars

\* isspace() in the C locale
SpaceChars == {32, 9, 10, 11, 12, 13}

\* '0'..'9'
DigitChars == 48..57

\* the last index of ch in s[1..upto], 0 if none
FindLastOf(s, ch, upto) ==
    IF \A i \in 1..upto : s[i] # ch THEN 0
    ELSE CHOOSE i \in 1..upto : s[i] = ch /\ \A k \in (i + 1)..upto : s[k] # ch

\* digits without leading zeros
RECURSIVE StripZeros(_)
StripZeros(d) == IF d # <<>> /\ d[1] = 0 THEN StripZeros(Tail(d)) ELSE d

\* a > b for two decimal numbers without leading zeros
DecGreater(a, b) ==
    \/ Len(a) > Len(b)
    \/ /\ Len(a) = Len(b)
       /\ \E i \in 1..Len(a) : a[i] > b[i] /\ \A k \in 1..(i - 1) : a[k] = b[k]

\* the decimal number d modulo 2^32, as its two 16-bit halves <<high, low>>
RECURSIVE DecMod32(_)
DecMod32(d) ==
    IF d = <<>> THEN <<0, 0>>
    ELSE LET p == DecMod32(Take(d, Len(d) - 1))
             lo == p[2] * 10 + d[Len(d)]
         IN  <<(p[1] * 10 + lo \div 65536) % 65536, lo % 65536>>

\* two's complement negation of a 32-bit value given as halves
Neg32(h) == IF h[2] = 0 THEN <<(65536 - h[1]) % 65536, 0>> ELSE <<65535 - h[1], 65536 - h[2]>>

\* the halves read as an int
ToInt32(h) == IF h[1] >= 32768 THEN (h[1] - 65536) * 65536 + h[2] ELSE h[1] * 65536 + h[2]

\* LONG_MAX of a 64-bit and of a 32-bit long, in decimal
DecLongMax(fLong64) ==
    IF fLong64 THEN <<9, 2, 2, 3, 3, 7, 2, 0, 3, 6, 8, 5, 4, 7, 7, 5, 8, 0, 7>>
    ELSE <<2, 1, 4, 7, 4, 8, 3, 6, 4, 7>>

\* int n = strtol(digits with sign): strtol clamps to the range of long, the
\* assignment keeps the low 32 bits
LongToInt(d, fNeg, fLong64) ==
    LET m == StripZeros(d)
        \* the magnitude is beyond LONG_MAX (for a negative number LONG_MIN is
        \* -(LONG_MAX + 1), whose low 32 bits are those the clamp yields)
        fClamp == DecGreater(m, DecLongMax(fLong64))
        lowMax == IF fLong64 THEN <<65535, 65535>> ELSE <<32767, 65535>>
        lowMin == IF fLong64 THEN <<0, 0>> ELSE <<32768, 0>>
    IN  ToInt32(IF fClamp THEN (IF fNeg THEN lowMin ELSE lowMax)
                ELSE IF fNeg THEN Neg32(DecMod32(m)) ELSE DecMod32(m))

\* strtol(s, &endp, 10): [n |-> the int stored, fEnd |-> *endp == 0]
StrToL(s, fLong64) ==
    LET a == SkipWhile(s, 1, SpaceChars)
        fSign == a <= Len(s) /\ s[a] \in {43, 45}
        b == IF fSign THEN a + 1 ELSE a
        e == SkipWhile(s, b, DigitChars)
    IN  IF e = b THEN [n |-> 0, fEnd |-> s = <<>>]
        ELSE [n |-> LongToInt([i \in 1..(e - b) |-> s[b + i - 1] - 48],
                             fSign /\ s[a] = 45, fLong64),
              fEnd |-> e = Len(s) + 1]

MutStripBrackets(in) == in

\* in with a leading '[' and a trailing ']' removed
StripBrackets(in) ==
    IF Len(in) > 0 /\ in[1] = 91 /\ in[Len(in)] = 93 THEN Sub(in, 2, Len(in) - 2) ELSE in

MutSplitHostPort(in, portOut, fLong64) == [port |-> portOut, host |-> in]

\* SplitHostPort(in, portOut, hostOut): [port, host] after the call
SplitHostPort(in, portOut, fLong64) ==
    LET colon == FindLastOf(in, 58, Len(in))
        fHaveColon == colon # 0
        fBracketed == fHaveColon /\ in[1] = 91 /\ in[colon - 1] = 93
        fMultiColon == fHaveColon /\ (colon = 1 \/ FindLastOf(in, 58, colon - 1) # 0)
        r == StrToL(Sub(in, colon + 1, Len(in) - colon), fLong64)
        fPort == fHaveColon /\ (colon = 1 \/ fBracketed \/ ~fMultiColon) /\ r.fEnd /\ r.n >= 0
        rest == IF fPort THEN Take(in, colon - 1) ELSE in
    IN  [port |-> IF fPort /\ r.n > 0 /\ r.n < 65536 THEN r.n ELSE portOut,
         host |-> StripBrackets(rest)]

\* s cut at every ch
RECURSIVE SplitOn(_, _)
SplitOn(s, ch) ==
    IF \A i \in 1..Len(s) : s[i] # ch THEN <<s>>
    ELSE LET i == CHOOSE j \in 1..Len(s) : s[j] = ch /\ \A k \in 1..(j - 1) : s[k] # ch
         IN  <<Take(s, i - 1)>> \o SplitOn(Sub(s, i + 1, Len(s) - i), ch)

\* the value of a decimal digit string of at most three digits
DecValue(f) == IF Len(f) = 1 THEN f[1] - 48
               ELSE IF Len(f) = 2 THEN (f[1] - 48) * 10 + f[2] - 48
               ELSE (f[1] - 48) * 100 + (f[2] - 48) * 10 + f[3] - 48

\* one field of a dotted quad: 1 to 3 digits, no leading zero, at most 255
IsOctet(f) ==
    /\ Len(f) \in 1..3
    /\ \A i \in 1..Len(f) : f[i] \in DigitChars
    /\ Len(f) > 1 => f[1] # 48
    /\ DecValue(f) <= 255

\* inet_pton(AF_INET, s): <<the 4 bytes>> or <<>>
ParseIPv4(s) ==
    LET f == SplitOn(s, 46)
    IN  IF Len(f) = 4 /\ \A i \in 1..4 : IsOctet(f[i])
        THEN <<[i \in 1..4 |-> DecValue(f[i])]>> ELSE <<>>

\* the value of a hexadecimal digit
HexValue(c) == IF c \in DigitChars THEN c - 48 ELSE IF c \in 97..102 THEN c - 87 ELSE c - 55

HexChars == DigitChars \cup (97..102) \cup (65..70)

\* one 16-bit group: 1 to 4 hexadecimal digits
IsHexGroup(f) == Len(f) \in 1..4 /\ \A i \in 1..Len(f) : f[i] \in HexChars

RECURSIVE HexGroupValue(_)
HexGroupValue(f) ==
    IF f = <<>> THEN 0 ELSE HexGroupValue(Take(f, Len(f) - 1)) * 16 + HexValue(f[Len(f)])

\* the bytes of the groups g, of which the last may be a dotted quad
RECURSIVE GroupBytes(_)
GroupBytes(g) ==
    IF g = <<>> THEN <<>>
    ELSE IF Len(g) = 1 /\ ParseIPv4(g[1]) # <<>> THEN ParseIPv4(g[1])[1]
    ELSE <<HexGroupValue(g[1]) \div 256, HexGroupValue(g[1]) % 256>> \o GroupBytes(Tail(g))

\* inet_pton(AF_INET6, s): <<the 16 bytes>> or <<>>
ParseIPv6(s) ==
    LET f0 == SplitOn(s, 58)
        fLead == Len(f0) >= 2 /\ f0[1] = <<>> /\ f0[2] = <<>>
        f1 == IF fLead THEN Tail(f0) ELSE f0
        fTrail == Len(f1) >= 2 /\ f1[Len(f1)] = <<>> /\ f1[Len(f1) - 1] = <<>>
        f == IF fTrail THEN Take(f1, Len(f1) - 1) ELSE f1
        gaps == {i \in 1..Len(f) : f[i] = <<>>}
        fGroups == \A i \in 1..Len(f) :
                      \/ i \in gaps
                      \/ IsHexGroup(f[i])
                      \/ i = Len(f) /\ i > 1 /\ ParseIPv4(f[i]) # <<>>
        gap == CHOOSE i \in gaps : TRUE
        left == IF gaps = {} THEN GroupBytes(f) ELSE GroupBytes(Take(f, gap - 1))
        right == IF gaps = {} THEN <<>> ELSE GroupBytes(Sub(f, gap + 1, Len(f) - gap))
        n == Len(left) + Len(right)
        \* an empty field at either end is half of a "::"
        fEnds == (f0[1] = <<>> => fLead) /\ (f1[Len(f1)] = <<>> => fTrail)
    IN  IF Len(f0) < 2 \/ ~fEnds \/ Cardinality(gaps) > 1 \/ ~fGroups THEN <<>>
        ELSE IF gaps = {} THEN (IF n = 16 THEN <<left>> ELSE <<>>)
        ELSE IF n <= 14 THEN <<left \o Zeros(16 - n) \o right>> ELSE <<>>

\* s ends with suffix
EndsWith(s, suffix) ==
    Len(s) >= Len(suffix) /\ Sub(s, Len(s) - Len(suffix) + 1, Len(suffix)) = suffix

\* ".b32.i2p"
StrDotB32I2p == <<46, 98, 51, 50, 46, 105, 50, 112>>

\* a name of the form <base32>.b32.i2p
isValidI2pB32(s) == Len(s) > Len(StrDotB32I2p) /\ EndsWith(s, StrDotB32I2p)

\* a base64 destination: NATIVE_I2P_DESTINATION_SIZE characters ending "AAAA"
isValidI2pAddress(s) == Len(s) = NATIVE_I2P_DESTINATION_SIZE /\ EndsWith(s, pchAAAA)

isStringI2pDestination(s) == isValidI2pB32(s) \/ isValidI2pAddress(s)

\* the value of a base32 character, -1 if it is none
Base32Value(c) ==
    IF c \in 97..122 THEN c - 97 ELSE IF c \in 65..90 THEN c - 65
    ELSE IF c \in 50..55 THEN c - 24 ELSE -1

\* DecodeBase32(s): the whole bytes that the characters before the first one
\* which is not base32 spell
DecodeBase32(s) ==
    LET n == SkipWhile(s, 1, {c \in Byte : Base32Value(c) >= 0}) - 1
        bit(k) == (Base32Value(s[(k \div 5) + 1]) \div (2 ^ (4 - (k % 5)))) % 2
    IN  [i \in 1..((5 * n) \div 8) |->
            bit(8 * i - 8) * 128 + bit(8 * i - 7) * 64 + bit(8 * i - 6) * 32
            + bit(8 * i - 5) * 16 + bit(8 * i - 4) * 8 + bit(8 * i - 3) * 4
            + bit(8 * i - 2) * 2 + bit(8 * i - 1)]

VARIABLES
    pc,           \* position of the dialing thread
    frame,        \* arguments and locals of its ConnectSocket(ByName) call
    sockets,      \* every socket the thread created or obtained, in order
    s5,           \* arguments and locals of the running Socks5 call
    proxyInfo,    \* static proxyType proxyInfo[NET_MAX]
    nameProxy,    \* static CService nameProxy
    fNameLookup,  \* bool fNameLookup, set from the configuration at startup
    nSetCalls,    \* how many registry setter calls were made
    fCharSigned,  \* whether plain char is signed in this build
    th,           \* per thread: the registry call it is in and its locals
    lock,         \* cs_proxyInfos: the thread holding it, 0 when free
    regLatest,    \* per registry slot, the argument of the latest accepted setter call
    regLog,       \* per registry slot, the arguments of all accepted setter calls
    nRegCalls,    \* how many registry calls the threads have started
    call,         \* a call of a lookup, parsing or classification function and its result
    obj,          \* one address object, the last operation applied to it and its result
    td            \* the statics of AddTimeData, nTimeOffset and the last call's outcome

\* the state of the threads that call the registry
regVars == <<th, lock, regLatest, regLog, nRegCalls>>

vars ==
    <<pc, frame, sockets, s5, proxyInfo, nameProxy, fNameLookup, nSetCalls, fCharSigned,
      regVars, call, obj, td>>

\* what Socks5 leaves alone
notSocks5 ==
    <<frame, proxyInfo, nameProxy, fNameLookup, nSetCalls, fCharSigned, regVars, call, obj, td>>

INVALID_SOCKET == 0

\* no call of a lookup, parsing or classification function is under way
NoPureCall == [op |-> "none"]

\* CService addr; a default-constructed endpoint no operation was applied to
NewObj == [addr |-> CServiceInit, op |-> "CService", arg |-> <<>>, ret |-> TRUE, nOps |-> 0]

\* the statics of AddTimeData before its first call: setKnown empty, the median
\* filter vTimeOffsets(200, 0) holding its initial value, fDone false, and
\* nTimeOffset 0; nMessageBoxes counts the calls of ThreadSafeMessageBox and
\* fInserted tells whether the last call got past the duplicate test
NewTimeData ==
    [setKnown |-> {}, vTimeOffsets |-> <<0>>, nTimeOffset |-> 0, fDone |-> FALSE,
     strMiscWarning |-> FALSE, nMessageBoxes |-> 0,
     op |-> "none", fInserted |-> FALSE]

(***************************************************************************)
(* Sockets.  A socket records what was done to it: the bytes accepted by   *)
(* send(), the length of every send() call, and every recv() call with the *)
(* length asked for and the value returned.                                *)
(***************************************************************************)
NewSocket(kind, peer) ==
    [kind |-> kind, peer |-> peer, open |-> TRUE, nClose |-> 0, fNonBlock |-> FALSE,
     connectRes |-> "none", selectRes |-> "none", soError |-> "none",
     tx |-> <<>>, sendLog |-> <<>>, recvLog |-> <<>>]

\* closesocket(hSocket)
closesocket(sk) == [sk EXCEPT !.open = FALSE, !.nClose = @ + 1]

\* send(hSocket, data, Len(data), MSG_NOSIGNAL) returning ret: ret bytes were taken
SockSend(sk, data, ret) ==
    [sk EXCEPT !.tx = @ \o Take(data, Max(ret, 0)), !.sendLog = Append(@, Len(data))]

\* recv(hSocket, buf, want, 0) returning got
SockRecv(sk, want, got) ==
    [sk EXCEPT !.recvLog = Append(@, [want |-> want, got |-> got])]

\* How many short counts the environment tries besides 1 and n-1
MaxShort == 1

\* values send()/recv() can return for a request of n >= 0 bytes on a blocking
\* stream socket: -1 (error), 0 (end of stream, recv only), a short count, or n
ShortCounts(n) == {k \in 1..(n - 1) : k <= MaxShort \/ k = n - 1}

SendResults(n) == {-1, n} \cup ShortCounts(n)

RecvResults(n) == {-1, 0, n} \cup ShortCounts(n)

(***************************************************************************)
(* Socks5(strDest, port, hSocket)                                          *)
(***************************************************************************)
\* sizeof(pchRet3)
SizeofPchRet3 == 256

\* char pszSocks5Init[] = "\5\1\0"
pszSocks5Init == <<5, 1, 0>>

MutHostTooLong(strDest) == Len(strDest) > 256

\* if (strDest.size() > 255)
Socks5HostTooLong(strDest) == Len(strDest) > 255

MutSocks5Request(strDest, port) ==
    <<5, 1, 0, 3, Min(Len(strDest), 255) % 256>> \o strDest
        \o <<port % 256, (port \div 256) % 256>>

\* strSocks5: "\5\1" '\000' '\003' <min(size,255)> strDest <port>>8 & 0xFF> <port & 0xFF>
Socks5Request(strDest, port) ==
    <<5, 1, 0, 3, Min(Len(strDest), 255) % 256>> \o strDest
        \o <<(port \div 256) % 256, port % 256>>

MutSocks5ReplyError(code) ==
    CASE code = 1 -> "Proxy error: general failure"
      [] code = 2 -> "Proxy error: connection not allowed"
      [] code = 3 -> "Proxy error: host unreachable"
      [] code = 4 -> "Proxy error: network unreachable"
      [] code = 5 -> "Proxy error: connection refused"
      [] code = 6 -> "Proxy error: TTL expired"
      [] code = 7 -> "Proxy error: protocol error"
      [] code = 8 -> "Proxy error: address type not supported"
      [] OTHER -> "Proxy error: unknown"

\* switch (pchRet2[1]) of the non-zero reply code
Socks5ReplyError(code) ==
    CASE code = 1 -> "Proxy error: general failure"
      [] code = 2 -> "Proxy error: connection not allowed"
      [] code = 3 -> "Proxy error: network unreachable"
      [] code = 4 -> "Proxy error: host unreachable"
      [] code = 5 -> "Proxy error: connection refused"
      [] code = 6 -> "Proxy error: TTL expired"
      [] code = 7 -> "Proxy error: protocol error"
      [] code = 8 -> "Proxy error: address type not supported"
      [] OTHER -> "Proxy error: unknown"

\* int nRecv = pchRet3[0]: the value of a char holding byte b
CharToInt(b, fSigned) == IF fSigned /\ b >= 128 THEN b - 256 ELSE b

\* the Socks5 frame on entry
Socks5Frame(strDest, port, hSocket) ==
    [strDest |-> strDest, port |-> port, hSocket |-> hSocket,
     pchRet1 |-> <<>>, pchRet2 |-> <<>>, pchRet3 |-> <<>>,
     result |-> "none", error |-> ""]

\* sk is the socket after the call just made on it, fr the frame after it
MutSocks5Fail(sk, fr, msg) ==
    /\ sockets' = [sockets EXCEPT ![s5.hSocket] = sk]
    /\ s5' = [fr EXCEPT !.result = "fail", !.error = msg]
    /\ pc' = "S5_Done"

\* closesocket(hSocket); return error(msg);
Socks5Fail(sk, fr, msg) ==
    /\ sockets' = [sockets EXCEPT ![s5.hSocket] = closesocket(sk)]
    /\ s5' = [fr EXCEPT !.result = "fail", !.error = msg]
    /\ pc' = "S5_Done"

\* control reaches the next call on the socket
Socks5Goto(sk, fr, next) ==
    /\ sockets' = [sockets EXCEPT ![s5.hSocket] = sk]
    /\ s5' = fr
    /\ pc' = next

\* answers a proxy may give to the greeting (2 bytes)
MethodReplies == {<<5, 0>>, <<5, 255>>, <<5, 2>>, <<4, 0>>, <<0, 5>>}

\* reply headers a proxy may send (version, reply code, reserved, address type)
ReplyHeaders ==
    {<<4, 0, 0, 1>>, <<0, 0, 0, 1>>, <<5, 0, 1, 1>>, <<5, 0, 255, 3>>}
    \cup {<<5, c, r, t>> : c \in (1..9) \cup {128, 255}, r \in {0, 1}, t \in {1, 9}}
    \cup {<<5, 0, 0, t>> : t \in {0, 1, 2, 3, 4, 5, 255}}

\* lines 260-264: the hostname does not fit the one-byte length field
Socks5TooLong ==
    /\ pc = "S5_Start"
    /\ Socks5HostTooLong(s5.strDest)
    /\ Socks5Fail(sockets[s5.hSocket], s5, "Hostname too long")
    /\ UNCHANGED notSocks5

\* lines 265-273: send the greeting
Socks5SendInit ==
    /\ pc = "S5_Start"
    /\ ~Socks5HostTooLong(s5.strDest)
    /\ \E ret \in SendResults(Len(pszSocks5Init)) :
          LET sk == SockSend(sockets[s5.hSocket], pszSocks5Init, ret)
          IN  IF ret # Len(pszSocks5Init)
              THEN Socks5Fail(sk, s5, "Error sending to proxy")
              ELSE Socks5Goto(sk, s5, "S5_RecvInit")
    /\ UNCHANGED notSocks5

\* lines 274-284: read the 2-byte method answer
Socks5RecvInit ==
    /\ pc = "S5_RecvInit"
    /\ \E got \in RecvResults(2) :
          LET sk == SockRecv(sockets[s5.hSocket], 2, got)
          IN  IF got # 2
              THEN Socks5Fail(sk, s5, "Error reading proxy response")
              ELSE \E b \in MethodReplies :
                      LET fr == [s5 EXCEPT !.pchRet1 = b]
                      IN  IF b[1] # 5 \/ b[2] # 0
                          THEN Socks5Fail(sk, fr, "Proxy failed to initialize")
                          ELSE Socks5Goto(sk, fr, "S5_SendReq")
    /\ UNCHANGED notSocks5

\* lines 285-296: build and send the CONNECT request
Socks5SendRequest ==
    /\ pc = "S5_SendReq"
    /\ LET strSocks5 == Socks5Request(s5.strDest, s5.port)
       IN  \E ret \in SendResults(Len(strSocks5)) :
              LET sk == SockSend(sockets[s5.hSocket], strSocks5, ret)
              IN  IF ret # Len(strSocks5)
                  THEN Socks5Fail(sk, s5, "Error sending to proxy")
                  ELSE Socks5Goto(sk, s5, "S5_RecvHdr")
    /\ UNCHANGED notSocks5

\* lines 297-331, 345: read the 4-byte reply header and judge it
Socks5RecvHeader ==
    /\ pc = "S5_RecvHdr"
    /\ \E got \in RecvResults(4) :
          LET sk == SockRecv(sockets[s5.hSocket], 4, got)
          IN  IF got # 4
              THEN Socks5Fail(sk, s5, "Error reading proxy response")
              ELSE \E hdr \in ReplyHeaders :
                      LET fr == [s5 EXCEPT !.pchRet2 = hdr]
                      IN  IF hdr[1] # 5
                          THEN Socks5Fail(sk, fr, "Proxy failed to accept request")
                          ELSE IF hdr[2] # 0
                          THEN Socks5Fail(sk, fr, Socks5ReplyError(hdr[2]))
                          ELSE IF hdr[3] # 0
                          THEN Socks5Fail(sk, fr, "Error: malformed proxy response")
                          ELSE IF hdr[4] \notin {1, 3, 4}
                          THEN Socks5Fail(sk, fr, "Error: malformed proxy response")
                          ELSE Socks5Goto(sk, fr, "S5_RecvAddr")
    /\ UNCHANGED notSocks5

\* the length of the first read of the bound address: case 0x01, 0x04, 0x03
Socks5AddrSize(atyp) == IF atyp = 1 THEN 4 ELSE IF atyp = 4 THEN 16 ELSE 1

\* lines 332-340: read the bound address, or the length byte of a domain name;
\* LenBytes are the length bytes the proxy may send
Socks5RecvAddr(LenBytes) ==
    /\ pc = "S5_RecvAddr"
    /\ LET n == Socks5AddrSize(s5.pchRet2[4])
       IN  \E got \in RecvResults(n) :
              LET sk == SockRecv(sockets[s5.hSocket], n, got)
              IN  IF got # n
                  THEN Socks5Fail(sk, s5, "Error reading from proxy")
                  ELSE IF s5.pchRet2[4] = 3
                  THEN \E L \in LenBytes :
                          Socks5Goto(sk, [s5 EXCEPT !.pchRet3 = <<L>>], "S5_RecvDom")
                  ELSE Socks5Goto(sk, s5, "S5_RecvPort")
    /\ UNCHANGED notSocks5

\* what recv() can return when the length passed is a negative int converted to
\* size_t: an error, or however many bytes the proxy has sent
OversizeRecvResults == {-1, 0, 1, SizeofPchRet3, SizeofPchRet3 + 1}

\* lines 341-351: int nRecv = pchRet3[0]; read nRecv bytes of domain name.
\* More than sizeof(pchRet3) bytes received overrun the buffer: from there the
\* behaviour is undefined and the model stops at S5_Overrun.
Socks5RecvDomain ==
    /\ pc = "S5_RecvDom"
    /\ LET nRecv == CharToInt(s5.pchRet3[1], fCharSigned)
       IN  \E got \in (IF nRecv >= 0 THEN RecvResults(nRecv) ELSE OversizeRecvResults) :
              LET sk == SockRecv(sockets[s5.hSocket], nRecv, got)
              IN  IF got > SizeofPchRet3
                  THEN Socks5Goto(sk, s5, "S5_Overrun")
                  ELSE IF got # nRecv
                  THEN Socks5Fail(sk, s5, "Error reading from proxy")
                  ELSE Socks5Goto(sk, s5, "S5_RecvPort")
    /\ UNCHANGED notSocks5

\* lines 352-358: read the 2-byte bound port
Socks5RecvPort ==
    /\ pc = "S5_RecvPort"
    /\ \E got \in RecvResults(2) :
          LET sk == SockRecv(sockets[s5.hSocket], 2, got)
          IN  IF got # 2
              THEN Socks5Fail(sk, s5, "Error reading from proxy")
              ELSE Socks5Goto(sk, [s5 EXCEPT !.result = "ok"], "S5_Done")
    /\ UNCHANGED notSocks5

(***************************************************************************)
(* The frame of the dialing call                                           *)
(***************************************************************************)
NoFrame ==
    [op |-> "none", pszDest |-> <<>>, portDefault |-> 0, strDest |-> <<>>, port |-> 0,
     nameProxy |-> CServiceInit, addr |-> CServiceInit, addrDest |-> CServiceInit,
     proxy |-> CServiceInit, hSocket |-> INVALID_SOCKET, hSocketRet |-> INVALID_SOCKET,
     calls |-> <<>>, fAllowLookup |-> FALSE, result |-> "none"]

\* what a step of the dialing call leaves alone
notDial == <<proxyInfo, nameProxy, fNameLookup, nSetCalls, fCharSigned, regVars, call, obj, td>>

\* the configured -i2p.mydestination.publickey; read only for addresses that
\* carry the I2P marker
sMyDest == <<>>

(***************************************************************************)
(* ConnectSocketDirectly(addrConnect, hSocketRet, nTimeout): every way the  *)
(* call can go, as [ret, sk]: the value returned and the socket created, if *)
(* any (<<>> when socket() was not reached or failed), as the call left it. *)
(***************************************************************************)
\* fcntl(hSocket, F_SETFL, fFlags & ~O_NONBLOCK) succeeded
RestoreBlocking(sk) == [sk EXCEPT !.fNonBlock = FALSE]

\* line 395: the errors of connect() after which the code waits with select().
\* On this build WSAEINPROGRESS, WSAEWOULDBLOCK and WSAEINVAL are the errno
\* values EINPROGRESS, EWOULDBLOCK and EINVAL.
WaitErrors == {"EINPROGRESS", "EWOULDBLOCK", "EINVAL"}

\* the results of connect() an attempt of the model meets: 0 ("connected") or
\* SOCKET_ERROR with the errno named
ConnectResults == {"connected", "EINPROGRESS", "EINVAL", "ECONNREFUSED"}

\* the tests of lines 392-445 that let the call go on to its last step: connect()
\* returned 0, or failed with one of WaitErrors, select() reported the socket
\* and SO_ERROR read as 0
ConnectGoesOn(sk) ==
    \/ sk.connectRes = "connected"
    \/ sk.connectRes \in WaitErrors /\ sk.selectRes = "ready" /\ sk.soError = "0"

\* the socket after connect(), select() and getsockopt(SO_ERROR) as far as the
\* code calls them: each result is the environment's
ConnectAttempts(sk) ==
    {[sk EXCEPT !.connectRes = r] : r \in ConnectResults \ WaitErrors}
    \cup {[sk EXCEPT !.connectRes = c, !.selectRes = r] :
             c \in ConnectResults \cap WaitErrors, r \in {"timeout", "error"}}
    \cup {[sk EXCEPT !.connectRes = c, !.selectRes = "ready", !.soError = e] :
             c \in ConnectResults \cap WaitErrors,
             e \in {"getsockopt_failed", "0", "ECONNREFUSED"}}

ConnectSocketDirectly(addrConnect) ==
    LET sa == GetSockAddr(addrConnect)
    IN  IF sa = <<>> THEN {[ret |-> FALSE, sk |-> <<>>]}
        ELSE LET new == NewSocket("tcp", sa[1])
                 nb == [new EXCEPT !.fNonBlock = TRUE]
             IN  \* socket() failed
                 {[ret |-> FALSE, sk |-> <<>>]}
                 \* setting O_NONBLOCK failed
                 \cup {[ret |-> FALSE, sk |-> <<closesocket(new)>>]}
                 \cup UNION {
                        IF ~ConnectGoesOn(c)
                        THEN {[ret |-> FALSE, sk |-> <<closesocket(c)>>]}
                        ELSE {\* clearing O_NONBLOCK failed
                              [ret |-> FALSE, sk |-> <<closesocket(c)>>],
                              [ret |-> TRUE, sk |-> <<RestoreBlocking(c)>>]}
                        : c \in ConnectAttempts(nb)}

\* the handle of the socket an outcome appends to sockets
OutcomeSocket(o) == IF o.sk = <<>> THEN INVALID_SOCKET ELSE Len(sockets) + 1

(***************************************************************************)
(* ConnectSocket(addrDest, hSocketRet, nTimeout)                           *)
(***************************************************************************)
\* a caller calls ConnectSocket
CallConnectSocket(addrDest) ==
    /\ pc = "idle"
    /\ frame' = [NoFrame EXCEPT !.op = "ConnectSocket", !.addrDest = addrDest,
                                !.calls = <<"ConnectSocket">>]
    /\ pc' = "CS_Start"
    /\ UNCHANGED <<sockets, s5>>
    /\ UNCHANGED notDial

\* the call returns
Return(fr, ok) ==
    /\ frame' = [fr EXCEPT !.result = IF ok THEN "ok" ELSE "fail"]
    /\ pc' = "Done"

MutSetI2pSocketOptions(sk) ==
    {[ret |-> TRUE, sk |-> <<[sk EXCEPT !.fNonBlock = TRUE]>>],
     [ret |-> FALSE, sk |-> <<sk>>]}

\* SetI2pSocketOptions(streamSocket) on an open stream socket: the outcomes
SetI2pSocketOptions(sk) ==
    {[ret |-> TRUE, sk |-> <<[sk EXCEPT !.fNonBlock = TRUE]>>],
     [ret |-> FALSE, sk |-> <<closesocket(sk)>>]}

\* I2PSession::Instance().connect(dest, false) followed by SetI2pSocketOptions
I2PConnect(dest) ==
    {[ret |-> FALSE, sk |-> <<>>]} \cup SetI2pSocketOptions(NewSocket("i2p", dest))

\* lines 547-555: the destination carries the I2P marker
ConnectSocketI2P ==
    /\ pc = "CS_Start"
    /\ IsI2P(frame.addrDest)
    /\ IF ~IsNativeI2P(frame.addrDest)
       THEN \* assert( addrDest.IsNativeI2P() ) fails
            /\ pc' = "Aborted"
            /\ UNCHANGED <<frame, sockets>>
       ELSE \E o \in I2PConnect(GetI2pDestination(frame.addrDest)) :
               /\ sockets' = sockets \o o.sk
               /\ Return([frame EXCEPT !.calls = Append(@, "I2PSession.connect"),
                                       !.hSocketRet = IF o.ret THEN OutcomeSocket(o) ELSE @],
                         o.ret)
    /\ UNCHANGED s5
    /\ UNCHANGED notDial

MutGetProxy(net) ==
    IF ~IsValid(proxyInfo[NET_IPV4]) THEN <<>> ELSE <<proxyInfo[NET_IPV4]>>

\* GetProxy(net, proxyInfoOut): <<proxy>> when one is set, else <<>>
GetProxy(net) == IF ~IsValid(proxyInfo[net]) THEN <<>> ELSE <<proxyInfo[net]>>

\* lines 558-560: look the proxy of the destination's network up
ConnectSocketGetProxy ==
    /\ pc = "CS_Start"
    /\ ~IsI2P(frame.addrDest)
    /\ LET got == GetProxy(GetNetwork(frame.addrDest, sMyDest))
       IN  /\ frame' = [frame EXCEPT !.calls = Append(@, "GetProxy"),
                                     !.proxy = IF got = <<>> THEN @ ELSE got[1]]
           /\ pc' = IF got = <<>> THEN "CS_Direct" ELSE "CS_Proxy"
    /\ UNCHANGED <<sockets, s5>>
    /\ UNCHANGED notDial

\* line 560: return ConnectSocketDirectly(addrDest, hSocketRet, nTimeout)
ConnectSocketDirect ==
    /\ pc = "CS_Direct"
    /\ \E o \in ConnectSocketDirectly(frame.addrDest) :
          /\ sockets' = sockets \o o.sk
          /\ Return([frame EXCEPT !.calls = Append(@, "ConnectSocketDirectly"),
                                  !.hSocketRet = IF o.ret THEN OutcomeSocket(o)
                                                 ELSE INVALID_SOCKET],
                    o.ret)
    /\ UNCHANGED s5
    /\ UNCHANGED notDial

\* lines 562-569: connect to the proxy, then enter Socks5
ConnectSocketProxy ==
    /\ pc = "CS_Proxy"
    /\ \E o \in ConnectSocketDirectly(frame.proxy) :
          LET fr == [frame EXCEPT !.calls = Append(@, "ConnectSocketDirectly"),
                                  !.hSocket = IF o.ret THEN OutcomeSocket(o)
                                              ELSE INVALID_SOCKET]
          IN  /\ sockets' = sockets \o o.sk
              /\ IF ~o.ret
                 THEN Return(fr, FALSE) /\ UNCHANGED s5
                 ELSE /\ frame' = [fr EXCEPT !.calls = Append(@, "Socks5")]
                      /\ s5' = Socks5Frame(ToStringIP(frame.addrDest),
                                           GetPort(frame.addrDest), fr.hSocket)
                      /\ pc' = "S5_Start"
    /\ UNCHANGED notDial

\* lines 568-572 and 600-604: Socks5 has returned to the dialing call
ReturnFromSocks5 ==
    /\ pc = "S5_Done"
    /\ frame.op # "none"
    /\ Return([frame EXCEPT !.hSocketRet = IF s5.result = "ok" THEN frame.hSocket ELSE @],
              s5.result = "ok")
    /\ UNCHANGED <<sockets, s5>>
    /\ UNCHANGED notDial

\* a native I2P destination: 512 characters and the terminator "AAAA"
DestA ==
    [i \in 1..NATIVE_I2P_DESTINATION_SIZE |->
        IF i > NATIVE_I2P_DESTINATION_SIZE - 4 THEN 65 ELSE 97 + (i % 26)]

\* what the local address book and the I2P router's naming service answer for
\* a .b32.i2p name: nothing, a destination, or text that is no destination
AddrmanAnswers == {<<>>, DestA}

NamingAnswers == {<<>>, DestA, <<63>>}

\* CNetAddr::SetSpecial(strName) on a fresh CNetAddr: the outcomes
\* [ret, addr, ext], ext the calls made outside the process
SetSpecial(strName) ==
    LET garlic(dest) ==
            [ip |-> pchGarlicCat \o Zeros(10),
             i2pDest |-> TrimZeros(Take(dest \o Zeros(NATIVE_I2P_DESTINATION_SIZE),
                                        NATIVE_I2P_DESTINATION_SIZE))]
        label == Take(strName, Len(strName) - 6)
        vchAddr == DecodeBase32(label)
    IN  IF isStringI2pDestination(strName)
        THEN IF isValidI2pB32(strName)
             THEN UNION {
                    \* IsI2PEnabled() && fNameLookup
                    IF fEnabled /\ fNameLookup
                    THEN UNION {
                           {[ret |-> isValidI2pAddress(addr), ext |-> ext,
                             addr |-> IF isValidI2pAddress(addr) THEN garlic(addr)
                                      ELSE CNetAddrInit] :
                              addr \in IF found # <<>> THEN {found} ELSE NamingAnswers}
                           : ext \in {IF found # <<>> THEN <<>> ELSE <<"namingLookup">>}}
                    ELSE {[ret |-> FALSE, addr |-> CNetAddrInit, ext |-> <<>>]}
                    : found \in AddrmanAnswers, fEnabled \in BOOLEAN}
             ELSE {[ret |-> TRUE, addr |-> garlic(strName), ext |-> <<>>]}
        ELSE IF Len(strName) > 6 /\ EndsWith(strName, StrDotOnion)
        THEN IF Len(vchAddr) # 16 - Len(pchOnionCat)
             THEN {[ret |-> FALSE, addr |-> CNetAddrInit, ext |-> <<>>]}
             ELSE {[ret |-> TRUE, addr |-> [ip |-> pchOnionCat \o vchAddr, i2pDest |-> <<>>],
                    ext |-> <<>>]}
        ELSE {[ret |-> FALSE, addr |-> CNetAddrInit, ext |-> <<>>]}

\* what the resolving getaddrinfo() gives for a host name: an error (<<>>) or
\* the list of its addrinfo entries
DnsAnswers ==
    {<<>>,
     <<[family |-> AF_INET, addr |-> <<93, 184, 216, 34>>]>>,
     <<[family |-> AF_INET, addr |-> <<0, 0, 0, 0>>],
       [family |-> AF_INET, addr |-> <<93, 184, 216, 34>>]>>,
     <<[family |-> "AF_OTHER", addr |-> <<>>],
       [family |-> AF_INET, addr |-> <<93, 184, 216, 34>>],
       [family |-> AF_INET6, addr |-> Zeros(15) \o <<1>>],
       [family |-> AF_INET, addr |-> <<93, 184, 216, 35>>],
       [family |-> AF_INET, addr |-> <<93, 184, 216, 36>>]>>}

MutWalkAddrInfo(aiTrav, vIP, nMaxSolutions) ==
    [i \in 1..Len(aiTrav) |-> CNetAddrFromIPv4(<<93, 184, 216, 34>>)]

\* lines 183-199: the loop over the answer list, which stops when vIP holds
\* nMaxSolutions addresses unless nMaxSolutions is 0
RECURSIVE WalkAddrInfo(_, _, _)
WalkAddrInfo(aiTrav, vIP, nMaxSolutions) ==
    IF aiTrav = <<>> \/ ~(nMaxSolutions = 0 \/ Len(vIP) < nMaxSolutions) THEN vIP
    ELSE LET ai == Head(aiTrav)
             v4 == IF ai.family = AF_INET THEN <<CNetAddrFromIPv4(ai.addr)>> ELSE <<>>
             v6 == IF ai.family = AF_INET6 THEN <<CNetAddrFromIPv6(ai.addr)>> ELSE <<>>
         IN  WalkAddrInfo(Tail(aiTrav), vIP \o v4 \o v6, nMaxSolutions)

\* LookupIntern(pszName, vIP, nMaxSolutions, fAllowLookup): the outcomes
\* [ret, vIP, ext]
LookupIntern(pszName, nMaxSolutions, fAllowLookup) ==
    UNION {
      IF sp.ret THEN {[ret |-> TRUE, vIP |-> <<sp.addr>>, ext |-> sp.ext]}
      ELSE IF isStringI2pDestination(pszName)
      THEN {[ret |-> FALSE, vIP |-> <<>>, ext |-> sp.ext]}
      ELSE IF ParseIPv4(pszName) # <<>>
      THEN {[ret |-> TRUE, vIP |-> <<CNetAddrFromIPv4(ParseIPv4(pszName)[1])>>, ext |-> sp.ext]}
      ELSE IF ParseIPv6(pszName) # <<>>
      THEN {[ret |-> TRUE, vIP |-> <<CNetAddrFromIPv6(ParseIPv6(pszName)[1])>>, ext |-> sp.ext]}
      ELSE IF ~fAllowLookup
      THEN \* getaddrinfo() with AI_NUMERICHOST on a name that is no numeric address
           {[ret |-> FALSE, vIP |-> <<>>, ext |-> sp.ext \o <<"getaddrinfo_numeric">>]}
      ELSE {[ret |-> Len(WalkAddrInfo(aiRes, <<>>, nMaxSolutions)) > 0,
             vIP |-> WalkAddrInfo(aiRes, <<>>, nMaxSolutions),
             ext |-> sp.ext \o <<"getaddrinfo">>] : aiRes \in DnsAnswers}
      : sp \in SetSpecial(pszName)}

\* LookupHost(pszName, vIP, nMaxSolutions, fAllowLookup)
LookupHost(pszName, nMaxSolutions, fAllowLookup) ==
    IF pszName = <<>> THEN {[ret |-> FALSE, vIP |-> <<>>, ext |-> <<>>]}
    ELSE LookupIntern(StripBrackets(pszName), nMaxSolutions, fAllowLookup)

\* CNetAddr(strIp, fAllowLookup): the outcomes [addr, ext]
CNetAddrFromString(strIp, fAllowLookup) ==
    {[addr |-> IF r.ret THEN r.vIP[1] ELSE CNetAddrInit, ext |-> r.ext] :
        r \in LookupHost(strIp, 1, fAllowLookup)}

\* Lookup(pszName, addr, portDefault, fAllowLookup) for one CService: the
\* outcomes [ret, addr, ext]
Lookup(pszName, portDefault, fAllowLookup) ==
    IF pszName = <<>> THEN {[ret |-> FALSE, addr |-> CServiceInit, ext |-> <<>>]}
    ELSE UNION {
           {[ret |-> r.ret, ext |-> r.ext,
             addr |-> IF r.ret THEN CService(r.vIP[1], sp.port % 65536) ELSE CServiceInit] :
              r \in LookupIntern(sp.host, 1, fAllowLookup)}
           : sp \in {SplitHostPort(pszName, portDefault, fLong64) : fLong64 \in BOOLEAN}}

\* Lookup(pszName, vAddr, portDefault, fAllowLookup, nMaxSolutions), called
\* with an empty vAddr: the outcomes [ret, vAddr, ext]
LookupVector(pszName, portDefault, fAllowLookup, nMaxSolutions) ==
    IF pszName = <<>> THEN {[ret |-> FALSE, vAddr |-> <<>>, ext |-> <<>>]}
    ELSE UNION {
           {[ret |-> r.ret, ext |-> r.ext,
             vAddr |-> IF r.ret
                       THEN [i \in 1..Len(r.vIP) |-> CService(r.vIP[i], sp.port % 65536)]
                       ELSE <<>>] :
              r \in LookupIntern(sp.host, nMaxSolutions, fAllowLookup)}
           : sp \in {SplitHostPort(pszName, portDefault, fLong64) : fLong64 \in BOOLEAN}}

\* "0.0.0.0:0"
StrZeroEndpoint == <<48, 46, 48, 46, 48, 46, 48, 58, 48>>

(***************************************************************************)
(* ConnectSocketByName(addr, hSocketRet, pszDest, portDefault, nTimeout)   *)
(***************************************************************************)
\* a caller calls ConnectSocketByName; lines 577-579 split pszDest
CallConnectSocketByName(pszDest, portDefault) ==
    /\ pc = "idle"
    /\ \E fLong64 \in BOOLEAN :
          LET sp == SplitHostPort(pszDest, portDefault, fLong64)
          IN  frame' = [NoFrame EXCEPT !.op = "ConnectSocketByName", !.pszDest = pszDest,
                                       !.portDefault = portDefault,
                                       !.strDest = sp.host, !.port = sp.port]
    /\ pc' = "BN_Start"
    /\ UNCHANGED <<sockets, s5>>
    /\ UNCHANGED notDial

\* lines 583-584: CService nameProxy; GetNameProxy(nameProxy)
ConnectSocketByNameGetNameProxy ==
    /\ pc = "BN_Start"
    /\ frame' = [frame EXCEPT !.calls = Append(@, "GetNameProxy"),
                              !.nameProxy = IF ~IsValid(nameProxy) THEN @ ELSE nameProxy]
    /\ pc' = "BN_Resolve"
    /\ UNCHANGED <<sockets, s5>>
    /\ UNCHANGED notDial

\* HaveNameProxy()
HaveNameProxy == IsValid(nameProxy)

MutConnectSocketByNameResolve ==
    /\ pc = "BN_Resolve"
    /\ LET fAllowLookup == fNameLookup /\ ~HaveNameProxy
       IN  \E r \in CNetAddrFromString(frame.strDest, fAllowLookup) :
              LET addrResolved == CService(r.addr, frame.port % 65536)
                  fr == [frame EXCEPT !.calls = @ \o r.ext, !.fAllowLookup = fAllowLookup]
              IN  IF IsValid(addrResolved) /\ ~HaveNameProxy
                  THEN /\ frame' = [fr EXCEPT !.addr = addrResolved, !.addrDest = addrResolved,
                                              !.calls = Append(@, "ConnectSocket")]
                       /\ pc' = "CS_Start"
                  ELSE /\ \E z \in Lookup(StrZeroEndpoint, 0, FALSE) :
                             frame' = [fr EXCEPT !.addr = IF z.ret THEN z.addr ELSE CServiceInit]
                       /\ pc' = "BN_NameProxy"
    /\ UNCHANGED <<sockets, s5>>
    /\ UNCHANGED notDial

\* lines 586-592: resolve strDest, numeric only unless fNameLookup && !HaveNameProxy()
ConnectSocketByNameResolve ==
    /\ pc = "BN_Resolve"
    /\ LET fAllowLookup == fNameLookup /\ ~HaveNameProxy
       IN  \E r \in CNetAddrFromString(frame.strDest, fAllowLookup) :
              LET addrResolved == CService(r.addr, frame.port % 65536)
                  fr == [frame EXCEPT !.calls = @ \o r.ext, !.fAllowLookup = fAllowLookup]
              IN  IF IsValid(addrResolved)
                  THEN /\ frame' = [fr EXCEPT !.addr = addrResolved, !.addrDest = addrResolved,
                                              !.calls = Append(@, "ConnectSocket")]
                       /\ pc' = "CS_Start"
                  ELSE /\ \E z \in Lookup(StrZeroEndpoint, 0, FALSE) :
                             frame' = [fr EXCEPT !.addr = IF z.ret THEN z.addr ELSE CServiceInit]
                       /\ pc' = "BN_NameProxy"
    /\ UNCHANGED <<sockets, s5>>
    /\ UNCHANGED notDial

\* lines 594-604: without a name proxy fail, else connect to it and enter Socks5
ConnectSocketByNameProxy ==
    /\ pc = "BN_NameProxy"
    /\ IF ~HaveNameProxy
       THEN /\ Return([frame EXCEPT !.calls = Append(@, "HaveNameProxy")], FALSE)
            /\ UNCHANGED <<sockets, s5>>
       ELSE \E o \in ConnectSocketDirectly(frame.nameProxy) :
               LET fr == [frame EXCEPT !.calls = @ \o <<"HaveNameProxy", "ConnectSocketDirectly">>,
                                       !.hSocket = IF o.ret THEN OutcomeSocket(o)
                                                   ELSE INVALID_SOCKET]
               IN  /\ sockets' = sockets \o o.sk
                   /\ IF ~o.ret
                      THEN Return(fr, FALSE) /\ UNCHANGED s5
                      ELSE /\ frame' = [fr EXCEPT !.calls = Append(@, "Socks5")]
                           /\ s5' = Socks5Frame(frame.strDest, frame.port % 65536, fr.hSocket)
                           /\ pc' = "S5_Start"
    /\ UNCHANGED notDial

(***************************************************************************)
(* The proxy registry's setters, called by another thread                  *)
(***************************************************************************)
\* how many setter calls a behaviour makes
MaxSetCalls == 1

SetProxy(net, addrProxy) ==
    /\ nSetCalls < MaxSetCalls
    /\ nSetCalls' = nSetCalls + 1
    /\ proxyInfo' = IF ~IsValid(addrProxy) THEN proxyInfo
                    ELSE [proxyInfo EXCEPT ![net] = addrProxy]
    /\ UNCHANGED <<pc, frame, sockets, s5, nameProxy, fNameLookup, fCharSigned, regVars, call, obj, td>>

SetNameProxy(addrProxy) ==
    /\ nSetCalls < MaxSetCalls
    /\ nSetCalls' = nSetCalls + 1
    /\ nameProxy' = IF ~IsValid(addrProxy) THEN nameProxy ELSE addrProxy
    /\ UNCHANGED <<pc, frame, sockets, s5, proxyInfo, fNameLookup, fCharSigned, regVars, call, obj, td>>

(***************************************************************************)
(* The proxy registry called from several threads.  Each call takes        *)
(* cs_proxyInfos for its body; an entry is assigned and copied member by   *)
(* member, the address first and the port after it.                        *)
(***************************************************************************)
Threads == {1, 2}

\* how many registry calls the threads start in a behaviour
MaxRegCalls == 4

\* operator==(const CNetAddr&, const CNetAddr&)
CNetAddrEq(a, b) == a.ip = b.ip /\ I2pBuf(a) = I2pBuf(b)

\* the value of the caller's output variable before a getter is called
OutBefore == CService(CNetAddrFromIPv4(<<10, 0, 0, 1>>), 1)

\* a thread outside the registry
NoRegCall ==
    [pc |-> "idle", op |-> "none", net |-> NET_UNROUTABLE, arg |-> CServiceInit,
     out |-> CServiceInit, obs |-> <<>>, ret |-> FALSE, i |-> 0]

NameProxyOps == {"SetNameProxy", "GetNameProxy", "HaveNameProxy"}

SetterOps == {"SetProxy", "SetNameProxy"}

\* the registry entry a call works on
Entry(r) == IF r.op \in NameProxyOps THEN nameProxy ELSE proxyInfo[r.net]

MutSetterRejects(addrProxy) == FALSE

\* if (!addrProxy.IsValid()) return false;
SetterRejects(addrProxy) == ~IsValid(addrProxy)

MutLockFree == TRUE

\* LOCK(cs_proxyInfos) goes on only when no thread holds the lock
LockFree == lock = 0

\* the assignment of a CService copies the CNetAddr part ...
StoreAddr(e, addrProxy) == CService(AsNetAddr(addrProxy), e.port)

MutStorePort(e, addrProxy) == e

\* ... and then the port
StorePort(e, addrProxy) == [e EXCEPT !.port = addrProxy.port]

\* thread t enters the call r
RegStart(t, r) ==
    /\ th[t].pc = "idle"
    /\ nRegCalls < MaxRegCalls
    /\ nRegCalls' = nRegCalls + 1
    /\ th' = [th EXCEPT ![t] = r]
    /\ UNCHANGED <<lock, regLatest, regLog, proxyInfo, nameProxy>>
    /\ UNCHANGED <<pc, frame, sockets, s5, fNameLookup, nSetCalls, fCharSigned, call, obj, td>>

\* SetProxy(net, addrProxy) up to its LOCK
CallSetProxy(t, net, addrProxy) ==
    RegStart(t, [NoRegCall EXCEPT !.op = "SetProxy", !.net = net, !.arg = addrProxy,
                                  !.pc = IF SetterRejects(addrProxy) THEN "return" ELSE "lock"])

\* SetNameProxy(addrProxy) up to its LOCK
CallSetNameProxy(t, addrProxy) ==
    RegStart(t, [NoRegCall EXCEPT !.op = "SetNameProxy", !.arg = addrProxy,
                                  !.pc = IF SetterRejects(addrProxy) THEN "return" ELSE "lock"])

\* GetProxy(net, proxyInfoOut) up to its LOCK
CallGetProxy(t, net) ==
    RegStart(t, [NoRegCall EXCEPT !.op = "GetProxy", !.net = net, !.out = OutBefore,
                                  !.pc = "lock"])

\* GetNameProxy(nameProxyOut) up to its LOCK
CallGetNameProxy(t) ==
    RegStart(t, [NoRegCall EXCEPT !.op = "GetNameProxy", !.out = OutBefore, !.pc = "lock"])

\* HaveNameProxy() up to its LOCK
CallHaveNameProxy(t) ==
    RegStart(t, [NoRegCall EXCEPT !.op = "HaveNameProxy", !.pc = "lock"])

\* IsProxy(addr) up to its LOCK
CallIsProxy(t, addr) ==
    RegStart(t, [NoRegCall EXCEPT !.op = "IsProxy", !.arg = CService(addr, 0), !.pc = "lock"])

\* LOCK(cs_proxyInfos).  The order in which the setters take the lock is the
\* order of their calls: regLatest and regLog record a valid argument here.
LockProxyInfos(t) ==
    LET r == th[t]
        fSet == r.op \in SetterOps /\ IsValid(r.arg)
    IN  /\ r.pc = "lock"
        /\ LockFree
        /\ lock' = t
        /\ th' = [th EXCEPT ![t].pc = IF r.op \in SetterOps THEN "store_addr"
                                      ELSE IF r.op = "IsProxy" THEN "loop" ELSE "check"]
        /\ regLatest' =
              IF ~fSet THEN regLatest
              ELSE IF r.op = "SetProxy"
              THEN [regLatest EXCEPT !.proxyInfo[r.net] = <<r.arg>>]
              ELSE [regLatest EXCEPT !.nameProxy = <<r.arg>>]
        /\ regLog' =
              IF ~fSet THEN regLog
              ELSE IF r.op = "SetProxy"
              THEN [regLog EXCEPT !.proxyInfo[r.net] = @ \cup {r.arg}]
              ELSE [regLog EXCEPT !.nameProxy = @ \cup {r.arg}]
        /\ UNCHANGED <<nRegCalls, proxyInfo, nameProxy>>
        /\ UNCHANGED <<pc, frame, sockets, s5, fNameLookup, nSetCalls, fCharSigned, call, obj, td>>

\* proxyInfo[net] = addrProxy; or nameProxy = addrProxy;  first the address
StoreEntryAddr(t) ==
    LET r == th[t]
    IN  /\ r.pc = "store_addr"
        /\ IF r.op = "SetProxy"
           THEN /\ proxyInfo' = [proxyInfo EXCEPT ![r.net] = StoreAddr(@, r.arg)]
                /\ UNCHANGED nameProxy
           ELSE /\ nameProxy' = StoreAddr(nameProxy, r.arg)
                /\ UNCHANGED proxyInfo
        /\ th' = [th EXCEPT ![t].pc = "store_port"]
        /\ UNCHANGED <<lock, regLatest, regLog, nRegCalls>>
        /\ UNCHANGED <<pc, frame, sockets, s5, fNameLookup, nSetCalls, fCharSigned, call, obj, td>>

\* then the port; return true
StoreEntryPort(t) ==
    LET r == th[t]
    IN  /\ r.pc = "store_port"
        /\ IF r.op = "SetProxy"
           THEN /\ proxyInfo' = [proxyInfo EXCEPT ![r.net] = StorePort(@, r.arg)]
                /\ UNCHANGED nameProxy
           ELSE /\ nameProxy' = StorePort(nameProxy, r.arg)
                /\ UNCHANGED proxyInfo
        /\ th' = [th EXCEPT ![t].pc = "return", ![t].ret = TRUE]
        /\ UNCHANGED <<lock, regLatest, regLog, nRegCalls>>
        /\ UNCHANGED <<pc, frame, sockets, s5, fNameLookup, nSetCalls, fCharSigned, call, obj, td>>

\* if (!proxyInfo[net].IsValid()) return false;  if (!nameProxy.IsValid())
\* return false;  and HaveNameProxy's return nameProxy.IsValid();
CheckEntry(t) ==
    LET r == th[t]
        e == Entry(r)
    IN  /\ r.pc = "check"
        /\ th' = [th EXCEPT ![t].obs = <<AsNetAddr(e)>>,
                            ![t].ret = r.op = "HaveNameProxy" /\ IsValid(e),
                            ![t].pc = IF r.op = "HaveNameProxy" \/ ~IsValid(e)
                                      THEN "return" ELSE "copy_addr"]
        /\ UNCHANGED <<lock, regLatest, regLog, nRegCalls, proxyInfo, nameProxy>>
        /\ UNCHANGED <<pc, frame, sockets, s5, fNameLookup, nSetCalls, fCharSigned, call, obj, td>>

\* proxyInfoOut = proxyInfo[net]; or nameProxyOut = nameProxy;  first the address
CopyEntryAddr(t) ==
    LET r == th[t]
    IN  /\ r.pc = "copy_addr"
        /\ th' = [th EXCEPT ![t].out = StoreAddr(@, Entry(r)), ![t].pc = "copy_port"]
        /\ UNCHANGED <<lock, regLatest, regLog, nRegCalls, proxyInfo, nameProxy>>
        /\ UNCHANGED <<pc, frame, sockets, s5, fNameLookup, nSetCalls, fCharSigned, call, obj, td>>

\* then the port; return true
CopyEntryPort(t) ==
    LET r == th[t]
    IN  /\ r.pc = "copy_port"
        /\ th' = [th EXCEPT ![t].out = StorePort(@, Entry(r)), ![t].pc = "return",
                            ![t].ret = TRUE]
        /\ UNCHANGED <<lock, regLatest, regLog, nRegCalls, proxyInfo, nameProxy>>
        /\ UNCHANGED <<pc, frame, sockets, s5, fNameLookup, nSetCalls, fCharSigned, call, obj, td>>

\* one round of IsProxy's loop: if (addr == (CNetAddr)proxyInfo[i]) return true;
\* after the last round it returns false
IsProxyLoop(t) ==
    LET r == th[t]
        e == AsNetAddr(proxyInfo[r.i])
        fEq == CNetAddrEq(AsNetAddr(r.arg), e)
    IN  /\ r.pc = "loop"
        /\ th' = [th EXCEPT ![t].obs = Append(@, e),
                            ![t].ret = fEq,
                            ![t].i = IF fEq THEN @ ELSE @ + 1,
                            ![t].pc = IF fEq \/ r.i + 1 = NET_MAX THEN "return" ELSE "loop"]
        /\ UNCHANGED <<lock, regLatest, regLog, nRegCalls, proxyInfo, nameProxy>>
        /\ UNCHANGED <<pc, frame, sockets, s5, fNameLookup, nSetCalls, fCharSigned, call, obj, td>>

\* the call returns; a lock it holds is released
RegReturn(t) ==
    /\ th[t].pc = "return"
    /\ th' = [th EXCEPT ![t] = NoRegCall]
    /\ lock' = IF lock = t THEN 0 ELSE lock
    /\ UNCHANGED <<regLatest, regLog, nRegCalls, proxyInfo, nameProxy>>
    /\ UNCHANGED <<pc, frame, sockets, s5, fNameLookup, nSetCalls, fCharSigned, call, obj, td>>

(***************************************************************************)
(* Socks5 on its own: entered, as its callers enter it, with a destination *)
(* string, a port and a socket connected to the proxy.                     *)
(***************************************************************************)
\* how far past 255 bytes the longest hostname tried is
HostOver == 2

\* a hostname of n bytes: "bcd...zab..."
HostOfLen(n) == [i \in 1..n |-> 97 + (i % 26)]

\* "example.com"
StrExampleCom == <<101, 120, 97, 109, 112, 108, 101, 46, 99, 111, 109>>

S5Hosts ==
    {StrExampleCom, HostOfLen(1), HostOfLen(127), HostOfLen(128), HostOfLen(254)}
    \cup {HostOfLen(n) : n \in 255..(255 + HostOver)}

S5Ports == {0, 80, 255, 256, 8080, 9377, 65535}

\* 127.0.0.1:9050
ProxyA == CService(CNetAddrFromIPv4(<<127, 0, 0, 1>>), 9050)

InitSocks5 ==
    /\ pc = "S5_Start"
    /\ fCharSigned \in BOOLEAN
    /\ sockets = <<[NewSocket("tcp", GetSockAddr(ProxyA)[1]) EXCEPT !.connectRes = "connected"]>>
    /\ \E strDest \in S5Hosts, port \in S5Ports : s5 = Socks5Frame(strDest, port, 1)
    /\ frame = NoFrame
    /\ proxyInfo = [net \in Networks |-> CServiceInit]
    /\ nameProxy = CServiceInit
    /\ fNameLookup = FALSE
    /\ nSetCalls = 0
    /\ th = [t \in Threads |-> NoRegCall]
    /\ lock = 0
    /\ regLatest = [proxyInfo |-> [net \in Networks |-> <<>>], nameProxy |-> <<>>]
    /\ regLog = [proxyInfo |-> [net \in Networks |-> {}], nameProxy |-> {}]
    /\ nRegCalls = 0
    /\ call = NoPureCall
    /\ obj = NewObj
    /\ td = NewTimeData

NextSocks5 ==
    \/ Socks5TooLong
    \/ Socks5SendInit
    \/ Socks5RecvInit
    \/ Socks5SendRequest
    \/ Socks5RecvHeader
    \/ Socks5RecvAddr(Byte)
    \/ Socks5RecvDomain
    \/ Socks5RecvPort

SpecSocks5 == InitSocks5 /\ [][NextSocks5]_vars

(***************************************************************************)
(* The connection layer: one dialing thread making one call, and a thread  *)
(* that sets proxies.                                                      *)
(***************************************************************************)
\* 93.184.216.34:9377
AddrIPv4 == CService(CNetAddrFromIPv4(<<93, 184, 216, 34>>), 9377)

\* 127.0.0.1:9377
AddrLoopback == CService(CNetAddrFromIPv4(<<127, 0, 0, 1>>), 9377)

\* [2001:4860:4860::8888]:9377
AddrIPv6 ==
    CService(CNetAddrFromIPv6(<<32, 1, 72, 96, 72, 96, 0, 0, 0, 0, 0, 0, 0, 0, 136, 136>>), 9377)

\* 74ap6aabaibqibig.onion:8080
AddrTor ==
    CService([ip |-> pchOnionCat \o <<255, 0, 255, 0, 1, 2, 3, 4, 5, 6>>, i2pDest |-> <<>>], 8080)

\* the I2P marker with the destination DestA
AddrI2P == CService([ip |-> pchGarlicCat \o Zeros(10), i2pDest |-> DestA], 0)

\* the I2P marker with a destination that is too short
AddrI2PShort == CService([ip |-> pchGarlicCat \o Zeros(10), i2pDest |-> <<97, 98, 99>>], 0)

\* [::1]:9377
AddrLoopback6 == CService(CNetAddrFromIPv6(Zeros(15) \o <<1>>), 9377)

Dests == {AddrIPv4, AddrLoopback, AddrLoopback6, AddrIPv6, AddrTor, AddrI2P, AddrI2PShort}

\* [::1]:1080
ProxyB == CService(CNetAddrFromIPv6(Zeros(15) \o <<1>>), 1080)

\* the arguments the setters are called with; CServiceInit is not valid
ProxyArgs == {ProxyA, CServiceInit}

NameProxyArgs == {ProxyB, CServiceInit}

\* "93.184.216.34"
StrIPv4 ==
    <<57, 51, 46, 49, 56, 52, 46, 50, 49, 54, 46, 51, 52>>

\* "[2001:4860:4860::8888]:8333"
StrIPv6Port ==
    <<91, 50, 48, 48, 49, 58, 52, 56, 54, 48, 58, 52, 56, 54, 48, 58, 58, 56, 56, 56, 56, 93, 58, 56, 51, 51, 51>>

\* "example.com:8080"
StrExampleComPort ==
    <<101, 120, 97, 109, 112, 108, 101, 46, 99, 111, 109, 58, 56, 48, 56, 48>>

\* "74ap6aabaibqibig.onion"
StrOnion ==
    <<55, 52, 97, 112, 54, 97, 97, 98, 97, 105, 98, 113, 105, 98, 105, 103, 46, 111, 110, 105, 111, 110>>

\* "abc.b32.i2p"
StrB32 ==
    <<97, 98, 99, 46, 98, 51, 50, 46, 105, 50, 112>>

\* the strings ConnectSocketByName is called with
Names ==
    {StrIPv4, StrIPv6Port, StrExampleCom, StrExampleComPort, StrOnion, StrB32, DestA, <<>>,
     HostOfLen(256)}

\* the default ports it is called with
DefaultPorts == {0, 9377}

Init ==
    /\ pc = "idle"
    /\ frame = NoFrame
    /\ sockets = <<>>
    /\ s5 = Socks5Frame(<<>>, 0, INVALID_SOCKET)
    /\ proxyInfo = [net \in Networks |-> CServiceInit]
    /\ nameProxy = CServiceInit
    /\ fNameLookup \in BOOLEAN
    /\ nSetCalls = 0
    /\ fCharSigned \in BOOLEAN
    /\ th = [t \in Threads |-> NoRegCall]
    /\ lock = 0
    /\ regLatest = [proxyInfo |-> [net \in Networks |-> <<>>], nameProxy |-> <<>>]
    /\ regLog = [proxyInfo |-> [net \in Networks |-> {}], nameProxy |-> {}]
    /\ nRegCalls = 0
    /\ call = NoPureCall
    /\ obj = NewObj
    /\ td = NewTimeData

\* the length bytes a proxy sends in this specification
EdgeLenBytes == {0, 1, 127, 128, 255}

Next ==
    \/ \E addrDest \in Dests : CallConnectSocket(addrDest)
    \/ ConnectSocketI2P
    \/ ConnectSocketGetProxy
    \/ ConnectSocketDirect
    \/ ConnectSocketProxy
    \/ ReturnFromSocks5
    \/ \E pszDest \in Names, portDefault \in DefaultPorts :
          CallConnectSocketByName(pszDest, portDefault)
    \/ ConnectSocketByNameGetNameProxy
    \/ ConnectSocketByNameResolve
    \/ ConnectSocketByNameProxy
    \/ Socks5TooLong
    \/ Socks5SendInit
    \/ Socks5RecvInit
    \/ Socks5SendRequest
    \/ Socks5RecvHeader
    \/ Socks5RecvAddr(EdgeLenBytes)
    \/ Socks5RecvDomain
    \/ Socks5RecvPort
    \/ \E net \in Networks, addrProxy \in ProxyArgs : SetProxy(net, addrProxy)
    \/ \E addrProxy \in NameProxyArgs : SetNameProxy(addrProxy)

Spec == Init /\ [][Next]_vars

(***************************************************************************)
(* The registry on its own: threads calling its six functions              *)
(***************************************************************************)
\* the families the threads set and get proxies for
RegNets == {NET_IPV4, NET_TOR}

\* the endpoints the setters are called with
RegProxyArgs == {ProxyA, ProxyB, CServiceInit}

\* the addresses IsProxy is asked about
IsProxyArgs == {AsNetAddr(ProxyA), CNetAddrInit}

InitRegistry ==
    /\ pc = "idle"
    /\ frame = NoFrame
    /\ sockets = <<>>
    /\ s5 = Socks5Frame(<<>>, 0, INVALID_SOCKET)
    /\ proxyInfo = [net \in Networks |-> CServiceInit]
    /\ nameProxy = CServiceInit
    /\ fNameLookup = FALSE
    /\ nSetCalls = 0
    /\ fCharSigned = FALSE
    /\ th = [t \in Threads |-> NoRegCall]
    /\ lock = 0
    /\ regLatest = [proxyInfo |-> [net \in Networks |-> <<>>], nameProxy |-> <<>>]
    /\ regLog = [proxyInfo |-> [net \in Networks |-> {}], nameProxy |-> {}]
    /\ nRegCalls = 0
    /\ call = NoPureCall
    /\ obj = NewObj
    /\ td = NewTimeData

NextRegistry ==
    \E t \in Threads :
       \/ \E net \in RegNets, addrProxy \in RegProxyArgs : CallSetProxy(t, net, addrProxy)
       \/ \E addrProxy \in RegProxyArgs : CallSetNameProxy(t, addrProxy)
       \/ \E net \in RegNets : CallGetProxy(t, net)
       \/ CallGetNameProxy(t)
       \/ CallHaveNameProxy(t)
       \/ \E addr \in IsProxyArgs : CallIsProxy(t, addr)
       \/ LockProxyInfos(t)
       \/ StoreEntryAddr(t)
       \/ StoreEntryPort(t)
       \/ CheckEntry(t)
       \/ CopyEntryAddr(t)
       \/ CopyEntryPort(t)
       \/ IsProxyLoop(t)
       \/ RegReturn(t)

SpecRegistry == InitRegistry /\ [][NextRegistry]_vars

(***************************************************************************)
(* Grouping, reachability and comparison of addresses; the operations that *)
(* change an address object                                                *)
(***************************************************************************)
\* b | ((1 << nBits) - 1) for a byte b
OrLowBits(b, nBits) == b - (b % (2 ^ nBits)) + (2 ^ nBits) - 1

MutGroupPrefix(a, nClass, nStartByte, nBits) ==
    <<nClass>> \o [i \in 1..(nBits \div 8) |-> GetByte(a, 15 - (i - 1))]

\* lines 1117-1125 of GetGroup: the class byte, then nBits bits of the address
\* from byte nStartByte on, the last byte filled up with ones
GroupPrefix(a, nClass, nStartByte, nBits) ==
    LET nWhole == nBits \div 8
        nRest == nBits % 8
    IN  <<nClass>>
        \o [i \in 1..nWhole |-> GetByte(a, 15 - (nStartByte + i - 1))]
        \o (IF nRest > 0
            THEN <<OrLowBits(GetByte(a, 15 - (nStartByte + nWhole)), nRest)>>
            ELSE <<>>)

MutGroupOfIPv6(a) == GroupPrefix(a, NET_IPV6, 0, 16)

\* the last two branches of GetGroup: /36 groups for 2001:470::/32 (he.net),
\* /32 groups for the rest of the IPv6 network
GroupOfIPv6(a) ==
    IF GetByte(a, 15) = 32 /\ GetByte(a, 14) = 1 /\ GetByte(a, 13) = 4 /\ GetByte(a, 12) = 112
    THEN GroupPrefix(a, NET_IPV6, 0, 36)
    ELSE GroupPrefix(a, NET_IPV6, 0, 32)

MutGroupOfUnroutable(a, myDest) ==
    IF IsLocal(a, myDest) THEN <<255>> ELSE <<NET_UNROUTABLE>>

\* lines 1066-1078 of GetGroup for an address that is not routable: nClass is
\* set to 255 when the address is local, and then to NET_UNROUTABLE; nBits is 0
GroupOfUnroutable(a, myDest) ==
    LET nClassLocal == IF IsLocal(a, myDest) THEN 255 ELSE NET_IPV6
        nClass == IF ~IsRoutable(a, myDest) THEN NET_UNROUTABLE ELSE nClassLocal
    IN  GroupPrefix(a, nClass, 0, 0)

\* CNetAddr::GetGroup().  A local address is not routable, so no branch for a
\* routable address starts from the class 255
GetGroup(a, myDest) ==
    IF IsI2P(a) THEN <<NET_NATIVE_I2P>> \o I2pBuf(a)
    ELSE IF ~IsRoutable(a, myDest) THEN GroupOfUnroutable(a, myDest)
    ELSE IF IsIPv4(a) \/ IsRFC6145(a) \/ IsRFC6052(a) THEN GroupPrefix(a, NET_IPV4, 12, 16)
    ELSE IF IsRFC3964(a) THEN GroupPrefix(a, NET_IPV4, 2, 16)
    ELSE IF IsRFC4380(a) THEN <<NET_IPV4, 255 - GetByte(a, 3), 255 - GetByte(a, 2)>>
    ELSE IF IsTor(a) THEN GroupPrefix(a, NET_TOR, 6, 4)
    ELSE GroupOfIPv6(a)

NET_UNKNOWN == NET_MAX + 0

NET_TEREDO == NET_MAX + 1

MutGetExtNetwork(paddr, myDest) ==
    IF paddr = <<>> THEN NET_UNKNOWN ELSE GetNetwork(paddr[1], myDest)

\* GetExtNetwork(const CNetAddr *addr): the pointer is <<>> (NULL) or <<a>>
GetExtNetwork(paddr, myDest) ==
    IF paddr = <<>> THEN NET_UNKNOWN
    ELSE IF IsRFC4380(paddr[1]) THEN NET_TEREDO
    ELSE GetNetwork(paddr[1], myDest)

\* enum Reachability
REACH_UNREACHABLE == 0

REACH_DEFAULT == 1

REACH_TEREDO == 2

REACH_IPV6_WEAK == 3

REACH_IPV4 == 4

REACH_IPV6_STRONG == 5

REACH_PRIVATE == 6

MutReachFromIPv4(ourNet) == REACH_DEFAULT

\* case NET_IPV4 of the switch on theirNet
ReachFromIPv4(ourNet) == IF ourNet = NET_IPV4 THEN REACH_IPV4 ELSE REACH_DEFAULT

MutReachFromOther(theirNet, ourNet, fTunnel) == REACH_DEFAULT

\* the cases of the switch on theirNet other than NET_IPV4
ReachFromOther(theirNet, ourNet, fTunnel) ==
    CASE theirNet = NET_IPV6 ->
           (CASE ourNet = NET_TEREDO -> REACH_TEREDO
              [] ourNet = NET_IPV4 -> REACH_IPV4
              [] ourNet = NET_IPV6 -> IF fTunnel THEN REACH_IPV6_WEAK ELSE REACH_IPV6_STRONG
              [] OTHER -> REACH_DEFAULT)
      [] theirNet = NET_NATIVE_I2P ->
           (IF ourNet = NET_NATIVE_I2P THEN REACH_PRIVATE ELSE REACH_UNREACHABLE)
      [] theirNet = NET_TOR ->
           (CASE ourNet = NET_IPV4 -> REACH_IPV4
              [] ourNet = NET_TOR -> REACH_PRIVATE
              [] OTHER -> REACH_DEFAULT)
      [] theirNet = NET_TEREDO ->
           (CASE ourNet = NET_TEREDO -> REACH_TEREDO
              [] ourNet = NET_IPV6 -> REACH_IPV6_WEAK
              [] ourNet = NET_IPV4 -> REACH_IPV4
              [] OTHER -> REACH_DEFAULT)
      [] OTHER ->
           (CASE ourNet = NET_TEREDO -> REACH_TEREDO
              [] ourNet = NET_IPV6 -> REACH_IPV6_WEAK
              [] ourNet = NET_IPV4 -> REACH_IPV4
              [] ourNet = NET_TOR -> REACH_PRIVATE
              [] ourNet = NET_NATIVE_I2P -> REACH_PRIVATE
              [] OTHER -> REACH_DEFAULT)

\* CNetAddr::GetReachabilityFrom(const CNetAddr *paddrPartner)
GetReachabilityFrom(a, paddrPartner, myDest) ==
    IF ~IsRoutable(a, myDest) THEN REACH_UNREACHABLE
    ELSE LET ourNet == GetExtNetwork(<<a>>, myDest)
             theirNet == GetExtNetwork(paddrPartner, myDest)
             fTunnel == IsRFC3964(a) \/ IsRFC6052(a) \/ IsRFC6145(a)
         IN  IF theirNet = NET_IPV4 THEN ReachFromIPv4(ourNet)
             ELSE ReachFromOther(theirNet, ourNet, fTunnel)

\* memcmp(x, y, n) < 0 for two buffers of n bytes
MemLess(x, y) ==
    \E i \in 1..Len(x) : x[i] < y[i] /\ \A j \in 1..(i - 1) : x[j] = y[j]

\* std::string operator<: the first difference decides, a proper prefix is less
StrLess(s, t) ==
    \/ \E i \in 1..Min(Len(s), Len(t)) : s[i] < t[i] /\ \A j \in 1..(i - 1) : s[j] = t[j]
    \/ Len(s) < Len(t) /\ IsPrefix(s, t)

\* operator!=(const CNetAddr&, const CNetAddr&)
CNetAddrNe(a, b) == a.ip # b.ip \/ I2pBuf(a) # I2pBuf(b)

\* operator<(const CNetAddr&, const CNetAddr&)
CNetAddrLt(a, b) ==
    MemLess(a.ip, b.ip) \/ (a.ip = b.ip /\ MemLess(I2pBuf(a), I2pBuf(b)))

MutCServiceEq(a, b) == CNetAddrEq(a, b) /\ a.port = b.port

\* operator==(const CService&, const CService&)
CServiceEq(a, b) ==
    IF IsNativeI2P(a)
    THEN IF IsNativeI2P(b) THEN GetI2pDestination(a) = GetI2pDestination(b) ELSE FALSE
    ELSE IF IsNativeI2P(b) THEN FALSE
    ELSE CNetAddrEq(a, b) /\ a.port = b.port

\* operator!=(const CService&, const CService&)
CServiceNe(a, b) ==
    IF IsNativeI2P(a)
    THEN IF IsNativeI2P(b) THEN GetI2pDestination(a) # GetI2pDestination(b) ELSE TRUE
    ELSE IF IsNativeI2P(b) THEN TRUE
    ELSE CNetAddrNe(a, b) \/ a.port # b.port

\* operator<(const CService&, const CService&)
CServiceLt(a, b) ==
    IF IsNativeI2P(a)
    THEN IF IsNativeI2P(b) THEN StrLess(GetI2pDestination(a), GetI2pDestination(b)) ELSE FALSE
    ELSE IF IsNativeI2P(b) THEN TRUE
    ELSE CNetAddrLt(a, b) \/ (CNetAddrEq(a, b) /\ a.port < b.port)

\* CService(const struct in_addr&, unsigned short)
CServiceFromIPv4(b4, portIn) == CService(CNetAddrFromIPv4(b4), portIn)

\* CService(const struct in6_addr&, unsigned short)
CServiceFromIPv6(b16, portIn) == CService(CNetAddrFromIPv6(b16), portIn)

\* CNetAddr::SetIP(const CNetAddr&): both buffers are copied
SetIP(a, ipIn) == [a EXCEPT !.ip = ipIn.ip, !.i2pDest = ipIn.i2pDest]

\* CNetAddr::SetI2pDestination(sDestination): [ret, addr]
SetI2pDestination(a, sDestination) ==
    LET iSize == Len(sDestination)
        n == Min(iSize, NATIVE_I2P_DESTINATION_SIZE)
        addr ==
            IF iSize > 0
            THEN [a EXCEPT !.ip = pchGarlicCat \o Zeros(10),
                           !.i2pDest = TrimZeros(Take(sDestination, n)
                                                 \o Zeros(NATIVE_I2P_DESTINATION_SIZE - n))]
            ELSE [a EXCEPT !.i2pDest = <<>>]
    IN  [ret |-> iSize = NATIVE_I2P_DESTINATION_SIZE /\ IsNativeI2P(addr), addr |-> addr]

\* CNetAddr::SetSpecial(strName) on an address that was in use: the I2P branch
\* writes ip[0..5] and i2pDest, the .onion branch writes ip and leaves i2pDest
SetSpecialOn(a, strName) ==
    {[ret |-> r.ret, ext |-> r.ext,
      addr |-> IF ~r.ret THEN a
               ELSE IF IsI2P(r.addr)
               THEN [a EXCEPT !.ip = pchGarlicCat \o Sub(a.ip, 7, 10),
                              !.i2pDest = r.addr.i2pDest]
               ELSE [a EXCEPT !.ip = r.addr.ip]] : r \in SetSpecial(strName)}

\* CService::GetKey(): [abort, vKey], abort when the assertion fails
GetKey(s) ==
    IF IsNativeI2P(s)
    THEN IF ~IsI2P(s) THEN [abort |-> TRUE, vKey |-> <<>>]
         ELSE [abort |-> FALSE, vKey |-> I2pBuf(s)]
    ELSE [abort |-> FALSE, vKey |-> s.ip \o <<s.port \div 256, s.port % 256>>]

(***************************************************************************)
(* The lookup, parsing and classification functions called on their own    *)
(***************************************************************************)
\* the strings SplitHostPort is called with
SplitInputs ==
    {
     <<101, 120, 97, 109, 112, 108, 101, 46, 99, 111, 109, 58, 56, 48, 56, 48>>,  \* "example.com:8080"
     <<91, 58, 58, 49, 93, 58, 56, 48, 56, 48>>,  \* "[::1]:8080"
     <<58, 58, 49>>,  \* "::1"
     <<101, 120, 97, 109, 112, 108, 101, 46, 99, 111, 109>>,  \* "example.com"
     <<91, 58, 58, 49, 93>>,  \* "[::1]"
     <<58, 56, 48, 56, 48>>,  \* ":8080"
     <<97, 58, 98, 58, 99>>,  \* "a:b:c"
     <<104, 111, 115, 116, 58, 48>>,  \* "host:0"
     <<104, 111, 115, 116, 58, 45, 49>>,  \* "host:-1"
     <<104, 111, 115, 116, 58, 54, 53, 53, 51, 53>>,  \* "host:65535"
     <<104, 111, 115, 116, 58, 54, 53, 53, 51, 54>>,  \* "host:65536"
     <<104, 111, 115, 116, 58, 52, 50, 57, 52, 57, 54, 55, 51, 55, 54>>,  \* "host:4294967376"
     <<104, 111, 115, 116, 58, 45, 52, 50, 57, 52, 57, 54, 55, 50, 49, 54>>,  \* "host:-4294967216"
     <<104, 111, 115, 116, 58, 52, 50, 57, 52, 57, 54, 55, 50, 57, 53>>,  \* "host:4294967295"
     <<104, 111, 115, 116, 58, 50, 49, 52, 55, 52, 56, 51, 54, 52, 56>>,  \* "host:2147483648"
     <<104, 111, 115, 116, 58, 57, 57, 57, 57, 57, 57, 57, 57, 57, 57, 57, 57, 57, 57, 57, 57, 57, 57, 57, 57>>,  \* "host:99999999999999999999"
     <<104, 111, 115, 116, 58>>,  \* "host:"
     <<104, 111, 115, 116, 58, 56, 48, 120>>,  \* "host:80x"
     <<104, 111, 115, 116, 58, 32, 56, 48>>,  \* "host: 80"
     <<104, 111, 115, 116, 58, 43, 56, 48>>,  \* "host:+80"
     <<104, 111, 115, 116, 58, 48, 48, 48, 56, 48>>,  \* "host:00080"
     <<91, 104, 111, 115, 116, 93, 58, 56, 48>>,  \* "[host]:80"
     <<91, 58, 58, 49, 93, 58, 97, 98, 99>>,  \* "[::1]:abc"
     <<91, 93>>,  \* "[]"
     <<49, 46, 50, 46, 51, 46, 52, 58, 49>>,  \* "1.2.3.4:1"
     <<91, 97, 58, 98, 93, 99, 58, 56, 48>>,  \* "[a:b]c:80"
     <<104, 58, 49>>  \* "h:1"
    }

\* "abc.onion": its label is no base32 text of ten bytes
StrBadOnion == <<97, 98, 99, 46, 111, 110, 105, 111, 110>>

\* the names the lookup functions are called with
LookupNames ==
    {StrIPv4, StrIPv6Port, StrExampleCom, StrExampleComPort, StrOnion, StrBadOnion, StrB32,
     DestA, <<>>, <<91, 58, 58, 49, 93>>}

\* the values of nMaxSolutions they are called with
MaxSolutions == {0, 1, 2, 3}

\* 12-byte beginnings and 4-byte ends of the addresses that are classified
AddrHeads ==
    {pchIPv4, Zeros(12),
     <<0, 0, 0, 0, 0, 0, 0, 255, 255, 1, 2, 3>>,           \* pchIPv4 shifted by 3
     <<0, 0, 0, 0, 0, 0, 0, 255, 254, 1, 2, 3>>,
     <<32, 1, 13, 184, 0, 0, 0, 0, 0, 0, 0, 0>>,           \* 2001:db8::
     <<32, 1, 13, 185, 0, 0, 0, 0, 0, 0, 0, 0>>,           \* 2001:db9::
     <<32, 1, 72, 96, 72, 96, 0, 0, 0, 0, 0, 0>>,          \* 2001:4860:4860::
     <<254, 128, 0, 0, 0, 0, 0, 0, 0, 0, 0, 0>>,           \* fe80::
     pchOnionCat \o Zeros(6), pchGarlicCat \o Zeros(6)}

AddrTails ==
    {<<0, 0, 0, 0>>, <<0, 0, 0, 1>>, <<255, 255, 255, 255>>, <<255, 255, 255, 254>>,
     <<93, 184, 216, 34>>, <<10, 0, 0, 1>>}

\* the addresses that are classified
Addrs == {[ip |-> h \o t, i2pDest |-> d] : h \in AddrHeads, t \in AddrTails, d \in {<<>>, DestA}}

\* a second native destination, and one whose first byte is 0
DestB == [DestA EXCEPT ![1] = 66]

DestNul == [DestA EXCEPT ![1] = 0]

\* the configured own destination: none, or DestA
MyDests == {<<>>, DestA}

\* first two bytes and last two bytes of the IPv4 addresses that are
\* classified: the private ranges and their neighbours
PrivateHeads ==
    {<<10, 0>>, <<10, 255>>, <<172, 16>>, <<172, 31>>, <<192, 168>>,
     <<11, 0>>, <<172, 15>>, <<172, 32>>, <<192, 169>>, <<169, 254>>}

PrivateTails == {<<0, 0>>, <<1, 5>>, <<0, 1>>, <<255, 255>>}

\* payloads of the Tor and I2P addresses that are classified
OverlayPayloads ==
    {Zeros(10), [i \in 1..10 |-> 255], <<255, 0, 255, 0, 1, 2, 3, 4, 5, 6>>,
     <<0, 0, 0, 0, 0, 0, 0, 0, 0, 1>>, <<0, 0, 0, 0, 0, 0, 127, 0, 0, 1>>}

\* the addresses GetNetwork is called on
NetAddrs ==
    {CNetAddrFromIPv4(h \o t) : h \in PrivateHeads, t \in PrivateTails}
    \cup {[ip |-> pchOnionCat \o p, i2pDest |-> d] : p \in OverlayPayloads, d \in {<<>>, DestA}}
    \cup {[ip |-> pchGarlicCat \o p, i2pDest |-> d] :
            p \in {Zeros(10), <<255, 0, 255, 0, 1, 2, 3, 4, 5, 6>>},
            d \in {<<>>, <<97, 98, 99>>, DestA, DestB, DestNul}}

\* the addresses GetGroup is called on
GroupAddrs ==
    {CNetAddrFromIPv6(h \o Zeros(10) \o <<0, 1>>) :
        h \in {<<32, 1, 72, 96>>, <<32, 1, 72, 97>>, <<42, 0, 20, 80>>,         \* 2001:4860::, 2001:4861::, 2a00:1450::
               <<32, 1, 4, 112>>,                                               \* 2001:470::
               <<32, 2, 1, 2>>, <<32, 2, 1, 3>>,                                \* 2002:102::, 2002:103::
               <<254, 128, 0, 0>>, <<252, 0, 0, 0>>, <<32, 1, 13, 184>>,        \* fe80::, fc00::, 2001:db8::
               <<0, 0, 0, 0>>}}                                                 \* ::1
    \cup {CNetAddrFromIPv6(h \o Zeros(6) \o t) :
            h \in {<<32, 1, 72, 96, 72, 96>>,                                   \* 2001:4860:4860::
                   <<32, 1, 4, 112, 0, 1>>, <<32, 1, 4, 112, 15, 255>>,         \* 2001:470:1::, 2001:470:fff::
                   <<32, 1, 4, 112, 16, 0>>,                                    \* 2001:470:1000::
                   <<32, 1, 0, 0, 1, 2>>,                                       \* 2001:0:102:: (Teredo)
                   <<0, 100, 255, 155, 0, 0>>},                                 \* 64:ff9b::
            t \in {<<1, 2, 3, 4>>, <<5, 6, 7, 8>>}}
    \cup {AsNetAddr(AddrIPv4), AsNetAddr(AddrTor), AsNetAddr(AddrI2P)}
    \* 1.2.3.4 and 1.2.9.9, ::ffff:0:1.2.3.4 (SIIT), 2002:102:304:: (6to4) and a
    \* Teredo address whose last four bytes are 1.2.3.4 XOR ff.ff.ff.ff
    \cup {CNetAddrFromIPv4(<<1, 2, 3, 4>>), CNetAddrFromIPv4(<<1, 2, 9, 9>>),
          CNetAddrFromIPv6(Zeros(8) \o <<255, 255, 0, 0, 1, 2, 3, 4>>),
          CNetAddrFromIPv6(<<32, 2, 1, 2, 3, 4>> \o Zeros(10)),
          CNetAddrFromIPv6(<<32, 1, 0, 0>> \o Zeros(8) \o <<254, 253, 252, 251>>)}
    \* addresses that are not routable: 127.0.0.1, 127.255.255.254, 0.1.2.3,
    \* 169.254.1.1, 255.255.255.255, 0.0.0.0, :: and 2001:10::1 (ORCHID)
    \cup {CNetAddrFromIPv4(<<127, 0, 0, 1>>), CNetAddrFromIPv4(<<127, 255, 255, 254>>),
          CNetAddrFromIPv4(<<0, 1, 2, 3>>), CNetAddrFromIPv4(<<169, 254, 1, 1>>),
          CNetAddrFromIPv4(<<255, 255, 255, 255>>), CNetAddrFromIPv4(<<0, 0, 0, 0>>),
          CNetAddrFromIPv6(Zeros(16)),
          CNetAddrFromIPv6(<<32, 1, 0, 16>> \o Zeros(11) \o <<1>>)}
    \* 64:ff9b::127.0.0.1: a routable address that embeds one that is not, and
    \* the I2P marker with a destination that is too short
    \cup {CNetAddrFromIPv6(<<0, 100, 255, 155>> \o Zeros(8) \o <<127, 0, 0, 1>>),
          AsNetAddr(AddrI2PShort)}

\* the addresses GetReachabilityFrom is called with
ReachAddrs ==
    {AsNetAddr(AddrIPv4), AsNetAddr(AddrLoopback), AsNetAddr(AddrIPv6), AsNetAddr(AddrTor),
     AsNetAddr(AddrI2P), AsNetAddr(AddrI2PShort),
     CNetAddrFromIPv4(<<10, 0, 0, 1>>), CNetAddrFromIPv4(<<0, 0, 0, 0>>),
     CNetAddrFromIPv6(<<32, 2, 1, 2>> \o Zeros(11) \o <<1>>),               \* 2002:102::1 (6to4)
     CNetAddrFromIPv6(<<32, 1, 0, 0, 1, 2>> \o Zeros(6) \o <<1, 2, 3, 4>>),  \* Teredo
     CNetAddrFromIPv6(<<254, 128>> \o Zeros(13) \o <<1>>),                  \* fe80::1
     [ip |-> pchOnionCat \o Zeros(10), i2pDest |-> <<>>],
     [ip |-> pchGarlicCat \o Zeros(10), i2pDest |-> DestB]}

\* the endpoints that are compared
CompareArgs ==
    {AddrI2P, AddrI2PShort, AddrTor, AddrIPv4,
     CService(AsNetAddr(AddrIPv4), 9378),
     CService(CNetAddrFromIPv4(<<93, 184, 216, 35>>), 80),
     CService([ip |-> AddrIPv4.ip, i2pDest |-> <<97>>], 9377),
     CService([ip |-> pchGarlicCat \o <<1, 2, 3, 4, 5, 6, 7, 8, 9, 10>>, i2pDest |-> DestA], 5),
     CService([ip |-> AddrIPv4.ip, i2pDest |-> DestA], 9377),
     CService([ip |-> pchGarlicCat \o Zeros(10), i2pDest |-> DestB], 0),
     CService([ip |-> pchGarlicCat \o Zeros(10), i2pDest |-> DestNul], 0),
     CService([ip |-> pchGarlicCat \o Zeros(10), i2pDest |-> [DestNul EXCEPT ![2] = 66]], 7)}

\* endpoints built by one operation on a default-constructed CService, and by
\* SetI2pDestination or SetSpecial applied to one of these
BuiltEndpoints ==
    LET first ==
            {CServiceFromIPv4(<<93, 184, 216, 34>>, p) : p \in {8333, 8334}}
            \cup {CServiceFromIPv6(AddrIPv6.ip, 0), CServiceFromIPv6(AddrTor.ip, 0)}
            \cup {SetI2pDestination(CServiceInit, d).addr :
                     d \in {<<97, 98, 99>>, <<97, 98, 100>>, DestA, DestB, DestNul,
                            [DestNul EXCEPT ![2] = 66]}}
            \cup {r.addr : r \in SetSpecialOn(CServiceInit, StrOnion)}
            \cup {SetIP(CServiceInit, AsNetAddr(AddrI2P))}
    IN  first
        \cup {SetI2pDestination(e, <<>>).addr : e \in first}
        \cup UNION {{r.addr : r \in SetSpecialOn(e, StrOnion)} : e \in first}

\* the names SetSpecial is called with: .onion names with labels of sixteen
\* base32 characters in lower and in upper case, labels that are too short, too
\* long or hold a character that is no base32 character, and other names
OnionNames ==
    {StrOnion, StrBadOnion, StrExampleCom, StrDotOnion,
     \* "aaaaaaaaaaaaaaaa.onion"
     <<97, 97, 97, 97, 97, 97, 97, 97, 97, 97, 97, 97, 97, 97, 97, 97>>
       \o StrDotOnion,
     \* "7777777777777777.onion"
     <<55, 55, 55, 55, 55, 55, 55, 55, 55, 55, 55, 55, 55, 55, 55, 55>>
       \o StrDotOnion,
     \* "abcdefghijklmnop.onion"
     <<97, 98, 99, 100, 101, 102, 103, 104, 105, 106, 107, 108, 109, 110, 111, 112>>
       \o StrDotOnion,
     \* "qrstuvwxyz234567.onion"
     <<113, 114, 115, 116, 117, 118, 119, 120, 121, 122, 50, 51, 52, 53, 54, 55>>
       \o StrDotOnion,
     \* "ABCDEFGHIJKLMNOP.onion"
     <<65, 66, 67, 68, 69, 70, 71, 72, 73, 74, 75, 76, 77, 78, 79, 80>>
       \o StrDotOnion,
     \* "74AP6aabaibqibig.onion"
     <<55, 52, 65, 80, 54, 97, 97, 98, 97, 105, 98, 113, 105, 98, 105, 103>>
       \o StrDotOnion,
     \* "abcdefghijklmno.onion"
     <<97, 98, 99, 100, 101, 102, 103, 104, 105, 106, 107, 108, 109, 110, 111>>
       \o StrDotOnion,
     \* "abcdefghijklmnopq.onion"
     <<97, 98, 99, 100, 101, 102, 103, 104, 105, 106, 107, 108, 109, 110, 111, 112, 113>>
       \o StrDotOnion,
     \* "abcdefgh1jklmnop.onion"
     <<97, 98, 99, 100, 101, 102, 103, 104, 49, 106, 107, 108, 109, 110, 111, 112>>
       \o StrDotOnion,
     \* "abcdefghijklmnop=.onion"
     <<97, 98, 99, 100, 101, 102, 103, 104, 105, 106, 107, 108, 109, 110, 111, 112, 61>>
       \o StrDotOnion,
     \* "a.onion"
     <<97>>
       \o StrDotOnion}

\* a call, made when none is under way, keeps its result until it returns
PureCall(c) ==
    /\ call' = c
    /\ UNCHANGED <<pc, frame, sockets, s5, proxyInfo, nameProxy, fNameLookup, nSetCalls,
                   fCharSigned, regVars, obj, td>>

\* LookupHost(pszName, vIP, nMaxSolutions, fAllowLookup)
CallLookupHost(pszName, nMaxSolutions, fAllowLookup) ==
    /\ call = NoPureCall
    /\ \E r \in LookupHost(pszName, nMaxSolutions, fAllowLookup) :
       PureCall([op |-> "LookupHost", pszName |-> pszName, nMaxSolutions |-> nMaxSolutions,
                 fAllowLookup |-> fAllowLookup, ret |-> r.ret, vIP |-> r.vIP, ext |-> r.ext])

\* Lookup(pszName, vAddr, portDefault, fAllowLookup, nMaxSolutions)
CallLookup(pszName, portDefault, fAllowLookup, nMaxSolutions) ==
    /\ call = NoPureCall
    /\ \E r \in LookupVector(pszName, portDefault, fAllowLookup, nMaxSolutions) :
       PureCall([op |-> "Lookup", pszName |-> pszName, nMaxSolutions |-> nMaxSolutions,
                 fAllowLookup |-> fAllowLookup, ret |-> r.ret, vIP |-> r.vAddr, ext |-> r.ext])

\* SplitHostPort(in, portOut, hostOut)
CallSplitHostPort(in, portOut, fLong64) ==
    /\ call = NoPureCall
    /\ LET sp == SplitHostPort(in, portOut, fLong64)
       IN  PureCall([op |-> "SplitHostPort", in |-> in, portOut |-> portOut,
                     fLong64 |-> fLong64, port |-> sp.port, host |-> sp.host])

\* addr.IsValid() and addr.IsRoutable()
CallIsValid(addr) ==
    /\ call = NoPureCall
    /\ PureCall([op |-> "IsValid", addr |-> addr, ret |-> IsValid(addr),
                 fRoutable |-> IsRoutable(addr, sMyDest)])

\* addr.GetNetwork(), with IsRFC1918(), IsValid() and IsRoutable(), in a node
\* whose own destination is myDest
CallGetNetwork(addr, myDest) ==
    /\ call = NoPureCall
    /\ PureCall([op |-> "GetNetwork", addr |-> addr, myDest |-> myDest,
                 ret |-> GetNetwork(addr, myDest), fRFC1918 |-> IsRFC1918(addr),
                 fValid |-> IsValid(addr), fRoutable |-> IsRoutable(addr, myDest)])

\* a.GetGroup() and b.GetGroup()
CallGetGroup(a, b) ==
    /\ call = NoPureCall
    /\ PureCall([op |-> "GetGroup", a |-> a, b |-> b,
                 retA |-> GetGroup(a, sMyDest), retB |-> GetGroup(b, sMyDest)])

\* addr.GetReachabilityFrom(paddrPartner)
CallGetReachabilityFrom(addr, paddrPartner) ==
    /\ call = NoPureCall
    /\ PureCall([op |-> "GetReachabilityFrom", addr |-> addr, paddrPartner |-> paddrPartner,
                 ret |-> GetReachabilityFrom(addr, paddrPartner, sMyDest)])

\* a.GetReachabilityFrom(paddrPartner) and b.GetReachabilityFrom(paddrPartner):
\* two candidate addresses of the node scored for the same partner
CallCompareReachability(a, b, paddrPartner) ==
    /\ call = NoPureCall
    /\ PureCall([op |-> "CompareReachability", a |-> a, b |-> b, paddrPartner |-> paddrPartner,
                 retA |-> GetReachabilityFrom(a, paddrPartner, sMyDest),
                 retB |-> GetReachabilityFrom(b, paddrPartner, sMyDest)])

\* a == b, a != b and a < b for two endpoints
CallCompare(a, b) ==
    /\ call = NoPureCall
    /\ PureCall([op |-> "compare", a |-> a, b |-> b, eq |-> CServiceEq(a, b),
                 ne |-> CServiceNe(a, b), lt |-> CServiceLt(a, b)])

\* CNetAddr addr; addr.SetSpecial(strName), then addr.ToStringIP()
CallSetSpecial(strName) ==
    /\ call = NoPureCall
    /\ \E r \in SetSpecial(strName) :
          PureCall([op |-> "SetSpecial", strName |-> strName, ret |-> r.ret, addr |-> r.addr,
                    strIP |-> ToStringIP(r.addr)])

\* a == b, a.GetKey() and b.GetKey() for two endpoints
CallCompareKeys(a, b) ==
    /\ call = NoPureCall
    /\ PureCall([op |-> "CompareKeys", a |-> a, b |-> b, eq |-> CServiceEq(a, b),
                 keyA |-> GetKey(a), keyB |-> GetKey(b)])

\* the call returns
PureReturn ==
    /\ call # NoPureCall
    /\ call' = NoPureCall
    /\ UNCHANGED <<pc, frame, sockets, s5, proxyInfo, nameProxy, fNameLookup, nSetCalls,
                   fCharSigned, regVars, obj, td>>

InitCalls ==
    /\ pc = "idle"
    /\ frame = NoFrame
    /\ sockets = <<>>
    /\ s5 = Socks5Frame(<<>>, 0, INVALID_SOCKET)
    /\ proxyInfo = [net \in Networks |-> CServiceInit]
    /\ nameProxy = CServiceInit
    /\ fNameLookup \in BOOLEAN
    /\ nSetCalls = 0
    /\ fCharSigned = FALSE
    /\ th = [t \in Threads |-> NoRegCall]
    /\ lock = 0
    /\ regLatest = [proxyInfo |-> [net \in Networks |-> <<>>], nameProxy |-> <<>>]
    /\ regLog = [proxyInfo |-> [net \in Networks |-> {}], nameProxy |-> {}]
    /\ nRegCalls = 0
    /\ call = NoPureCall
    /\ obj = NewObj
    /\ td = NewTimeData

NextCalls ==
    \/ \E pszName \in LookupNames, nMaxSolutions \in MaxSolutions, fAllowLookup \in BOOLEAN :
          CallLookupHost(pszName, nMaxSolutions, fAllowLookup)
    \/ \E pszName \in LookupNames, portDefault \in DefaultPorts, fAllowLookup \in BOOLEAN,
          nMaxSolutions \in MaxSolutions :
          CallLookup(pszName, portDefault, fAllowLookup, nMaxSolutions)
    \/ \E in \in SplitInputs, portOut \in DefaultPorts, fLong64 \in BOOLEAN :
          CallSplitHostPort(in, portOut, fLong64)
    \/ \E addr \in Addrs : CallIsValid(addr)
    \/ \E addr \in NetAddrs, myDest \in MyDests : CallGetNetwork(addr, myDest)
    \/ \E a \in GroupAddrs, b \in GroupAddrs : CallGetGroup(a, b)
    \/ \E addr \in ReachAddrs, paddrPartner \in {<<>>} \cup {<<a>> : a \in ReachAddrs} :
          CallGetReachabilityFrom(addr, paddrPartner)
    \/ \E a \in ReachAddrs, b \in ReachAddrs,
          paddrPartner \in {<<>>} \cup {<<p>> : p \in ReachAddrs} :
          CallCompareReachability(a, b, paddrPartner)
    \/ \E a \in CompareArgs, b \in CompareArgs : CallCompare(a, b)
    \/ \E a \in BuiltEndpoints, b \in BuiltEndpoints : CallCompareKeys(a, b)
    \/ \E strName \in OnionNames : CallSetSpecial(strName)
    \/ PureReturn

SpecCalls == InitCalls /\ [][NextCalls]_vars

(***************************************************************************)
(* Operations applied to one address object, a CService                    *)
(***************************************************************************)
\* how many operations a behaviour applies to the object
MaxAddrOps == 3

\* no assertion has failed and the behaviour may apply one more operation
ObjLive == obj.op # "abort" /\ obj.nOps < MaxAddrOps

\* the object after the operation op with argument arg gave ret and left addr
ObjOp(op, arg, ret, addr) ==
    /\ obj' = [addr |-> addr, op |-> op, arg |-> arg, ret |-> ret, nOps |-> obj.nOps + 1]
    /\ UNCHANGED <<pc, frame, sockets, s5, proxyInfo, nameProxy, fNameLookup, nSetCalls,
                   fCharSigned, regVars, call, td>>

\* addr = CService(ipv4Addr, portIn)
ConstructIPv4(b4, portIn) ==
    /\ ObjLive
    /\ ObjOp("CService(in_addr)", b4, TRUE, CServiceFromIPv4(b4, portIn))

\* addr = CService(ipv6Addr, portIn)
ConstructIPv6(b16, portIn) ==
    /\ ObjLive
    /\ ObjOp("CService(in6_addr)", b16, TRUE, CServiceFromIPv6(b16, portIn))

\* addr.SetIP(ipIn)
ObjSetIP(ipIn) ==
    /\ ObjLive
    /\ ObjOp("SetIP", ipIn.ip, TRUE, SetIP(obj.addr, ipIn))

\* addr.SetSpecial(strName)
ObjSetSpecial(strName) ==
    /\ ObjLive
    /\ \E r \in SetSpecialOn(obj.addr, strName) : ObjOp("SetSpecial", strName, r.ret, r.addr)

\* addr.SetI2pDestination(sDestination)
ObjSetI2pDestination(sDestination) ==
    /\ ObjLive
    /\ LET r == SetI2pDestination(obj.addr, sDestination)
       IN  ObjOp("SetI2pDestination", sDestination, r.ret, r.addr)

\* addr.GetKey(): the assertion in it ends the process when it fails
ObjGetKey ==
    /\ ObjLive
    /\ LET r == GetKey(obj.addr)
       IN  ObjOp(IF r.abort THEN "abort" ELSE "GetKey", r.vKey, ~r.abort, obj.addr)

\* the arguments of the operations
ObjIPv4Args == {<<93, 184, 216, 34>>, <<10, 0, 0, 1>>}

ObjIPv6Args == {AddrIPv6.ip, pchGarlicCat \o Zeros(10), AddrTor.ip}

ObjSetIPArgs == {AsNetAddr(AddrIPv4), AsNetAddr(AddrTor), AsNetAddr(AddrI2P)}

ObjNames == {StrOnion, StrB32, DestA, StrBadOnion, StrExampleCom}

\* destinations: none, too short, well formed, full length without the
\* terminator, one character too long, and too long with the terminator last
ObjDestinations ==
    {<<>>, <<97, 98, 99>>, DestA,
     [i \in 1..NATIVE_I2P_DESTINATION_SIZE |-> 97],
     DestA \o <<66>>,
     [i \in 1..(NATIVE_I2P_DESTINATION_SIZE + 4) |->
        IF i > NATIVE_I2P_DESTINATION_SIZE THEN 65 ELSE 97]}

InitAddr ==
    /\ pc = "idle"
    /\ frame = NoFrame
    /\ sockets = <<>>
    /\ s5 = Socks5Frame(<<>>, 0, INVALID_SOCKET)
    /\ proxyInfo = [net \in Networks |-> CServiceInit]
    /\ nameProxy = CServiceInit
    /\ fNameLookup \in BOOLEAN
    /\ nSetCalls = 0
    /\ fCharSigned = FALSE
    /\ th = [t \in Threads |-> NoRegCall]
    /\ lock = 0
    /\ regLatest = [proxyInfo |-> [net \in Networks |-> <<>>], nameProxy |-> <<>>]
    /\ regLog = [proxyInfo |-> [net \in Networks |-> {}], nameProxy |-> {}]
    /\ nRegCalls = 0
    /\ call = NoPureCall
    /\ obj = NewObj
    /\ td = NewTimeData

NextAddr ==
    \/ \E b4 \in ObjIPv4Args : ConstructIPv4(b4, 8333)
    \/ \E b16 \in ObjIPv6Args : ConstructIPv6(b16, 8333)
    \/ \E ipIn \in ObjSetIPArgs : ObjSetIP(ipIn)
    \/ \E strName \in ObjNames : ObjSetSpecial(strName)
    \/ \E sDestination \in ObjDestinations : ObjSetI2pDestination(sDestination)
    \/ ObjGetKey

SpecAddr == InitAddr /\ [][NextAddr]_vars

(***************************************************************************)
(* AddTimeData: the network time offset from the clocks of the peers       *)
(***************************************************************************)
\* the capacity of the median filter, vTimeOffsets(200, 0)
nMedianFilterSize == 200

\* CMedianFilter::input: when the filter is full its oldest value leaves
MedianFilterInput(vValues, value) ==
    (IF Len(vValues) = nMedianFilterSize THEN Tail(vValues) ELSE vValues) \o <<value>>

\* v with value put before its first element that is greater
RECURSIVE SortedInsert(_, _)
SortedInsert(v, value) ==
    IF v = <<>> THEN <<value>>
    ELSE IF value <= Head(v) THEN <<value>> \o v
    ELSE <<Head(v)>> \o SortedInsert(Tail(v), value)

\* CMedianFilter::sorted: the values of the filter in ascending order
RECURSIVE MedianFilterSorted(_)
MedianFilterSorted(vValues) ==
    IF vValues = <<>> THEN <<>>
    ELSE SortedInsert(MedianFilterSorted(Tail(vValues)), Head(vValues))

\* n / 2 of C++, which rounds towards zero
HalfTowardsZero(n) == IF n >= 0 THEN n \div 2 ELSE -((-n) \div 2)

\* CMedianFilter::median: the middle value of an odd number of values, the
\* mean of the two middle values of an even number
MedianFilterMedian(vValues) ==
    LET vSorted == MedianFilterSorted(vValues)
        size == Len(vSorted)
    IN  IF size % 2 = 1 THEN vSorted[(size + 1) \div 2]
        ELSE HalfTowardsZero(vSorted[size \div 2] + vSorted[size \div 2 + 1])

abs64(n) == IF n >= 0 THEN n ELSE -n

\* ip is in setKnown: std::set takes two keys for the same one when neither
\* is less than the other
IsKnown(setKnown, ip) ==
    \E known \in setKnown : ~CNetAddrLt(ip, known) /\ ~CNetAddrLt(known, ip)

MutTimeOffsetFromMedian(nMedian) == nMedian

\* only let other nodes change our time by so much: the median when it is
\* less than 35 minutes away, else 0
TimeOffsetFromMedian(nMedian) == IF abs64(nMedian) < 35 * 60 THEN nMedian ELSE 0

\* somebody has a time different from ours but within 5 minutes of ours
fMatch(vSorted) ==
    \E i \in 1..Len(vSorted) : vSorted[i] # 0 /\ abs64(vSorted[i]) < 5 * 60

\* AddTimeData(ip, nTime) called when GetTime() is nNow; the whole body runs
\* under cs_nTimeOffset
AddTimeData(ip, nTime, nNow) ==
    /\ LET nOffsetSample == nTime - nNow
           vValues == MedianFilterInput(td.vTimeOffsets, nOffsetSample)
           fMedianTaken == Len(vValues) >= 5 /\ Len(vValues) % 2 = 1
           nMedian == MedianFilterMedian(vValues)
           fWarn == /\ fMedianTaken
                    /\ ~(abs64(nMedian) < 35 * 60)
                    /\ ~td.fDone
                    /\ ~fMatch(MedianFilterSorted(vValues))
       IN  td' = IF IsKnown(td.setKnown, ip)
                 THEN [td EXCEPT !.op = "AddTimeData", !.fInserted = FALSE]
                 ELSE [setKnown |-> td.setKnown \cup {ip},
                       vTimeOffsets |-> vValues,
                       nTimeOffset |-> IF fMedianTaken THEN TimeOffsetFromMedian(nMedian)
                                       ELSE td.nTimeOffset,
                       fDone |-> td.fDone \/ fWarn,
                       strMiscWarning |-> td.strMiscWarning \/ fWarn,
                       nMessageBoxes |-> td.nMessageBoxes + (IF fWarn THEN 1 ELSE 0),
                       op |-> "AddTimeData", fInserted |-> TRUE]
    /\ UNCHANGED <<pc, frame, sockets, s5, proxyInfo, nameProxy, fNameLookup, nSetCalls,
                   fCharSigned, regVars, call, obj>>

\* the peers whose clocks are reported; the last two differ in the last byte
\* of a short destination only
TimeAddrs ==
    {AsNetAddr(AddrIPv4), AsNetAddr(AddrLoopback), AsNetAddr(AddrIPv6), AsNetAddr(AddrTor),
     AsNetAddr(AddrI2PShort), [ip |-> AddrI2PShort.ip, i2pDest |-> <<97, 98, 100>>]}

\* the clock of this node when a peer's time arrives
TimeNow == {1000000}

\* how far a peer's clock is from ours, in seconds: 35 minutes behind, 2
\* minutes ahead, 35 minutes ahead
TimeOffsets == {-2100, 120, 2100}

InitTime ==
    /\ pc = "idle"
    /\ frame = NoFrame
    /\ sockets = <<>>
    /\ s5 = Socks5Frame(<<>>, 0, INVALID_SOCKET)
    /\ proxyInfo = [net \in Networks |-> CServiceInit]
    /\ nameProxy = CServiceInit
    /\ fNameLookup = FALSE
    /\ nSetCalls = 0
    /\ fCharSigned = FALSE
    /\ th = [t \in Threads |-> NoRegCall]
    /\ lock = 0
    /\ regLatest = [proxyInfo |-> [net \in Networks |-> <<>>], nameProxy |-> <<>>]
    /\ regLog = [proxyInfo |-> [net \in Networks |-> {}], nameProxy |-> {}]
    /\ nRegCalls = 0
    /\ call = NoPureCall
    /\ obj = NewObj
    /\ td = NewTimeData

NextTime ==
    \E ip \in TimeAddrs, nNow \in TimeNow, nOffset \in TimeOffsets :
        AddTimeData(ip, nNow + nOffset, nNow)

SpecTime == InitTime /\ [][NextTime]_vars

(***************************************************************************)
(* Properties of Socks5, checked under SpecSocks5                          *)
(***************************************************************************)
\* the socket Socks5 works on
S5Sock == sockets[s5.hSocket]

\* the two messages of the client, written out from the protocol
WireGreeting == <<5, 1, 0>>

WireRequest(host, port) ==
    <<5, 1, 0, 3, Len(host)>> \o host \o <<port \div 256, port % 256>>

\* C1: the bytes written to the socket are a prefix of the greeting 05 01 00
\* followed by the CONNECT request 05 01 00 03 <len> <host> <port-hi> <port-lo>;
\* send() is called at most twice, once with the greeting and once with the
\* request; the request is sent only after the greeting went out whole and the
\* answer 05 00 was read.
C1_OnlyGreetingThenRequest ==
    LET sk == S5Sock
        req == WireRequest(s5.strDest, s5.port)
    IN  /\ IsPrefix(sk.tx, WireGreeting \o req)
        /\ Len(sk.sendLog) <= 2
        /\ Len(sk.sendLog) >= 1 => sk.sendLog[1] = Len(WireGreeting)
        /\ Len(sk.sendLog) = 2 => sk.sendLog[2] = Len(req)
        /\ (Len(sk.sendLog) = 2 \/ Len(sk.tx) > 3) =>
              /\ Len(sk.tx) >= 3
              /\ Len(sk.recvLog) >= 1
              /\ sk.recvLog[1] = [want |-> 2, got |-> 2]
              /\ s5.pchRet1 = <<5, 0>>

\* the whole request for port 8080 (0x1F90) went out
C1_Witness ==
    /\ pc = "S5_RecvHdr"
    /\ s5.port = 8080
    /\ S5Sock.tx = WireGreeting \o WireRequest(s5.strDest, 8080)
    /\ Len(s5.strDest) = 255

\* C2: a failing return of Socks5 has closed the socket exactly once, a
\* successful return has never closed it, and the socket is not closed while
\* Socks5 is still running.
C2_FailureClosesOnce ==
    LET sk == S5Sock
    IN  /\ pc = "S5_Done" => s5.result \in {"ok", "fail"}
        /\ (pc = "S5_Done" /\ s5.result = "fail") => (~sk.open /\ sk.nClose = 1)
        /\ (pc = "S5_Done" /\ s5.result = "ok") => (sk.open /\ sk.nClose = 0)
        /\ pc # "S5_Done" => (sk.open /\ sk.nClose = 0)

\* failed on an unknown bound-address type
C2_Witness ==
    /\ pc = "S5_Done"
    /\ s5.result = "fail"
    /\ s5.pchRet2 = <<5, 0, 0, 5>>
    /\ s5.error = "Error: malformed proxy response"
    /\ S5Sock.nClose = 1

(***************************************************************************)
(* The dialing calls                                                       *)
(***************************************************************************)
\* ConnectSocket has been entered, by its caller or from ConnectSocketByName
InConnectSocket == \E i \in 1..Len(frame.calls) : frame.calls[i] = "ConnectSocket"

\* what ConnectSocket has called so far
CSCalls ==
    LET i == CHOOSE j \in 1..Len(frame.calls) : frame.calls[j] = "ConnectSocket"
    IN  Sub(frame.calls, i + 1, Len(frame.calls) - i)

\* every socket of the state is a TCP socket whose peer is the endpoint e, and
\* there is at most one
OnlyTcpTo(e) ==
    /\ Len(sockets) <= 1
    /\ \A h \in DOMAIN sockets :
          sockets[h].kind = "tcp" /\ <<sockets[h].peer>> = GetSockAddr(e)

\* no byte of a SOCKS5 exchange went over any socket
NoSocks5Traffic ==
    \A h \in DOMAIN sockets : sockets[h].sendLog = <<>> /\ sockets[h].recvLog = <<>>

\* the state ConnectSocket returns in, for each of its three paths
C3_PathTaken ==
    LET d == frame.addrDest
    IN  IF IsNativeI2P(d)
        THEN /\ CSCalls = <<"I2PSession.connect">>
             /\ Len(sockets) <= 1
             /\ \A h \in DOMAIN sockets :
                   sockets[h].kind = "i2p" /\ sockets[h].peer = GetI2pDestination(d)
             /\ NoSocks5Traffic
             /\ frame.result = "ok" =>
                   /\ frame.hSocketRet = Len(sockets)
                   /\ Len(sockets) = 1
                   /\ sockets[1].fNonBlock
        ELSE IF ~IsValid(frame.proxy)
        THEN /\ CSCalls = <<"GetProxy", "ConnectSocketDirectly">>
             /\ OnlyTcpTo(d)
             /\ NoSocks5Traffic
        ELSE /\ OnlyTcpTo(frame.proxy)
             /\ GetSockAddr(frame.proxy) # GetSockAddr(d)
             /\ \/ /\ CSCalls = <<"GetProxy", "ConnectSocketDirectly">>
                   /\ frame.result = "fail"
                   /\ NoSocks5Traffic
                \/ /\ CSCalls = <<"GetProxy", "ConnectSocketDirectly", "Socks5">>
                   /\ s5.strDest = ToStringIP(d)
                   /\ s5.port = GetPort(d)
                   /\ s5.hSocket = 1

\* the step of ConnectSocket that looks the proxy up goes on to the proxy
\* exactly when one is set for the destination's network, and with that one
C3_ProxyChosen ==
    LET set == proxyInfo[GetNetwork(frame.addrDest, sMyDest)]
    IN  /\ ~IsI2P(frame.addrDest)
        /\ pc' = "CS_Proxy" <=> IsValid(set)
        /\ pc' = "CS_Direct" <=> ~IsValid(set)
        /\ pc' = "CS_Proxy" => frame'.proxy = set

\* C3: ConnectSocket takes exactly one of three paths.  For a native I2P
\* destination it calls only the I2P session's connect and leaves the stream
\* socket non-blocking, without reading the proxy table or opening a TCP socket.
\* Otherwise it connects directly to the destination when no proxy is set for
\* the destination's network, and else connects to that proxy and runs Socks5
\* with the destination's address text and port, never connecting to the
\* destination itself.
C3_ThreePaths ==
    /\ []((pc = "Done" /\ InConnectSocket) => C3_PathTaken)
    /\ [][(pc = "CS_Start" /\ pc' \in {"CS_Proxy", "CS_Direct"}) => C3_ProxyChosen]_vars

\* ConnectSocket has returned success through a proxy set for the Tor network
C3_Witness ==
    /\ pc = "Done"
    /\ frame.op = "ConnectSocket"
    /\ frame.addrDest = AddrTor
    /\ frame.proxy = ProxyA
    /\ frame.result = "ok"
    /\ s5.strDest = StrOnion

\* the calls the dialing call has made
CallsMade == {frame.calls[i] : i \in 1..Len(frame.calls)}

\* ConnectSocketByName has not resolved its host and has returned
UnresolvedReturn == pc = "Done" /\ frame.op = "ConnectSocketByName" /\ ~InConnectSocket

\* the host and the port that the names of the model which may stay
\* unresolved split into
HostPartOf(pszDest) == IF pszDest = StrExampleComPort THEN StrExampleCom ELSE pszDest

PortPartOf(pszDest, portDefault) == IF pszDest = StrExampleComPort THEN 8080 ELSE portDefault

\* C4: when the host of ConnectSocketByName does not resolve locally to a valid
\* endpoint and a name proxy is configured, the call connects to the name proxy
\* and runs Socks5 with the unresolved host and the port that splitting gave;
\* when the host does not resolve and no name proxy is configured, the call
\* fails and no socket was opened.
C4_UnresolvedGoesToNameProxy ==
    UnresolvedReturn =>
        /\ IsValid(frame.nameProxy) =>
              /\ frame.nameProxy = ProxyB
              /\ "ConnectSocketDirectly" \in CallsMade
              /\ OnlyTcpTo(frame.nameProxy)
              /\ "Socks5" \in CallsMade <=> frame.hSocket # INVALID_SOCKET
              /\ "Socks5" \in CallsMade =>
                    /\ s5.hSocket = frame.hSocket
                    /\ s5.hSocket = 1
                    /\ s5.strDest = HostPartOf(frame.pszDest)
                    /\ s5.port = PortPartOf(frame.pszDest, frame.portDefault)
        /\ ~IsValid(nameProxy) => frame.result = "fail" /\ sockets = <<>>

\* "example.com:8080" was handed to the name proxy, the request was sent
C4_Witness ==
    /\ UnresolvedReturn
    /\ frame.pszDest = StrExampleComPort
    /\ frame.nameProxy = ProxyB
    /\ Len(sockets) = 1
    /\ sockets[1].tx = WireGreeting \o WireRequest(StrExampleCom, 8080)

\* the calls out of the process that resolve a name
ResolvingCalls == {"getaddrinfo", "namingLookup"}

\* C5: while a name proxy is configured, ConnectSocketByName does no local
\* lookup of the destination's name: its resolution is numeric-only whatever
\* fNameLookup is; fNameLookup is honoured only when no name proxy is configured.
C5_NumericOnlyWithNameProxy ==
    frame.op = "ConnectSocketByName" =>
        /\ IsValid(frame.nameProxy) =>
              \A i \in 1..Len(frame.calls) : frame.calls[i] \notin ResolvingCalls
        /\ (pc \notin {"BN_Start", "BN_Resolve"} /\ ~IsValid(nameProxy)) =>
              frame.fAllowLookup = fNameLookup

\* C6: whenever ConnectSocketDirectly, ConnectSocket or ConnectSocketByName
\* returns failure, every socket created or obtained during the call (direct,
\* proxy or I2P stream socket) has been closed.
C6_FailureLeavesNoOpenSocket ==
    (pc = "Done" /\ frame.result = "fail") =>
        \A h \in DOMAIN sockets : ~sockets[h].open /\ sockets[h].nClose = 1

\* ConnectSocketByName failed after the name proxy refused the request
C6_Witness ==
    /\ pc = "Done"
    /\ frame.op = "ConnectSocketByName"
    /\ frame.result = "fail"
    /\ Len(sockets) = 1
    /\ Len(sockets[1].recvLog) = 2
    /\ ~sockets[1].open

\* the sockets ConnectSocketDirectly has returned to the dialing call
ReturnedTcp ==
    {h \in DOMAIN sockets :
        sockets[h].kind = "tcp" /\ h \in {frame.hSocket, frame.hSocketRet}}

\* C7: ConnectSocketDirectly returns a socket only if connect() completed at
\* once, or it would block, select() reported the socket ready within the
\* timeout and SO_ERROR is zero; a select() that times out or fails and a
\* non-zero SO_ERROR make it fail; a socket it returns is in blocking mode.
C7_ReturnsOnlyConnected ==
    \A h \in DOMAIN sockets :
        sockets[h].kind = "tcp" =>
            /\ h \in ReturnedTcp =>
                  /\ \/ sockets[h].connectRes = "connected"
                     \/ /\ sockets[h].connectRes \in {"EINPROGRESS", "EWOULDBLOCK"}
                        /\ sockets[h].selectRes = "ready"
                        /\ sockets[h].soError = "0"
                  /\ ~sockets[h].fNonBlock
            /\ (\/ sockets[h].selectRes \in {"timeout", "error"}
                \/ sockets[h].soError \notin {"none", "0"}) =>
                  h \notin ReturnedTcp /\ ~sockets[h].open

\* the error named for each reply code
ReplyCodeMessage(code) ==
    IF code = 1 THEN "Proxy error: general failure"
    ELSE IF code = 2 THEN "Proxy error: connection not allowed"
    ELSE IF code = 3 THEN "Proxy error: network unreachable"
    ELSE IF code = 4 THEN "Proxy error: host unreachable"
    ELSE IF code = 5 THEN "Proxy error: connection refused"
    ELSE IF code = 6 THEN "Proxy error: TTL expired"
    ELSE IF code = 7 THEN "Proxy error: protocol error"
    ELSE IF code = 8 THEN "Proxy error: address type not supported"
    ELSE "Proxy error: unknown"

\* C8: after a reply header with version 05 and a non-zero reply code Socks5
\* has failed with the error of that code, whatever the reserved and type bytes
\* are, has made no further recv() call (6 bytes read in all) and has closed the
\* socket; the header 05 04 00 01 gives "host unreachable".
C8_ReplyCodeError ==
    LET sk == S5Sock
    IN  /\ (Len(s5.pchRet2) = 4 /\ s5.pchRet2[1] = 5 /\ s5.pchRet2[2] # 0) =>
              /\ pc = "S5_Done"
              /\ s5.result = "fail"
              /\ s5.error = ReplyCodeMessage(s5.pchRet2[2])
              /\ sk.recvLog = <<[want |-> 2, got |-> 2], [want |-> 4, got |-> 4]>>
              /\ ~sk.open
        /\ s5.pchRet2 = <<5, 4, 0, 1>> => s5.error = "Proxy error: host unreachable"

C8_Witness ==
    /\ pc = "S5_Done"
    /\ s5.pchRet2 = <<5, 4, 0, 1>>
    /\ s5.error = "Proxy error: host unreachable"
    /\ ~S5Sock.open

\* C9: after a reply header 05 00 00 <type> Socks5 asks for exactly 4 bytes
\* (type 01), 16 bytes (type 04) or one length byte L and then exactly L bytes
\* (type 03), for every L in 0..255, then for exactly 2 port bytes, and succeeds
\* iff every one of these reads is complete; any other type fails as a
\* malformed reply without a further read.
C9_BoundAddressRead ==
    LET sk == S5Sock
        log == sk.recvLog
        t == s5.pchRet2[4]
        nReads == IF t = 3 THEN 5 ELSE 4
    IN  (Len(s5.pchRet2) = 4 /\ Take(s5.pchRet2, 3) = <<5, 0, 0>>) =>
           /\ pc # "S5_Overrun"
           /\ t \notin {1, 3, 4} =>
                 /\ pc = "S5_Done" /\ s5.result = "fail"
                 /\ s5.error = "Error: malformed proxy response"
                 /\ Len(log) = 2
           /\ (t = 1 /\ Len(log) >= 3) => log[3].want = 4
           /\ (t = 4 /\ Len(log) >= 3) => log[3].want = 16
           /\ (t = 3 /\ Len(log) >= 3) => log[3].want = 1
           /\ (t = 3 /\ Len(log) >= 4) => log[4].want = s5.pchRet3[1]
           /\ (t \in {1, 3, 4} /\ Len(log) >= nReads) => log[nReads].want = 2
           /\ (t \in {1, 3, 4} /\ pc = "S5_Done") =>
                 (s5.result = "ok" <=>
                     (Len(log) = nReads /\ \A i \in 1..nReads : log[i].got = log[i].want))

\* C10: called with a hostname of more than 255 bytes Socks5 fails and closes
\* the socket, and no send() or recv() call was made on it.
C10_LongHostNothingSent ==
    LET sk == S5Sock
    IN  (Len(s5.strDest) > 255 /\ pc # "S5_Start") =>
           /\ pc = "S5_Done"
           /\ s5.result = "fail"
           /\ s5.error = "Hostname too long"
           /\ ~sk.open /\ sk.nClose = 1
           /\ sk.tx = <<>> /\ sk.sendLog = <<>> /\ sk.recvLog = <<>>

C10_Witness ==
    /\ Len(s5.strDest) = 256
    /\ pc = "S5_Done"
    /\ S5Sock.sendLog = <<>>
    /\ ~S5Sock.open

(***************************************************************************)
(* Properties of the proxy registry, checked under SpecRegistry            *)
(***************************************************************************)
\* a setter call whose argument is no valid endpoint
InvalidSetter(r) == r.op \in SetterOps /\ ~IsValid(r.arg)

\* C11: SetProxy and SetNameProxy called with an invalid endpoint return
\* false, and the steps of such a call leave every per-family entry and the
\* name-proxy slot as they were.
C11_InvalidSetterRejected ==
    /\ [](\A t \in Threads : InvalidSetter(th[t]) => th[t].pc = "return" /\ ~th[t].ret)
    /\ [][\A t \in Threads :
             (InvalidSetter(th[t]) \/ InvalidSetter(th'[t])) /\ th'[t] # th[t]
                => proxyInfo' = proxyInfo /\ nameProxy' = nameProxy]_vars

\* an invalid setter call returns while an entry set before it is in place
C11_Witness ==
    \E t \in Threads :
       /\ InvalidSetter(th[t]) /\ th[t].pc = "return" /\ ~th[t].ret
       /\ th[t].op = "SetProxy" /\ proxyInfo[th[t].net] = ProxyA

\* the latest accepted setter argument for the entry a call works on
Latest(r) == IF r.op \in NameProxyOps THEN regLatest.nameProxy ELSE regLatest.proxyInfo[r.net]

\* what an entry holds when the latest accepted argument is l
Holds(l) == IF l = <<>> THEN CServiceInit ELSE l[1]

\* some setter is between taking the lock and returning
Storing == \E t \in Threads : th[t].op \in SetterOps /\ th[t].pc \in {"store_addr", "store_port"}

\* C12: a getter succeeds iff a setter with a valid endpoint has been called
\* for its entry, and then gives the endpoint of the latest such call; a
\* failing getter leaves its output as it was; HaveNameProxy tells whether
\* SetNameProxy was called with a valid endpoint; every entry holds what its
\* own latest valid setter call gave it, so no setter changes or clears
\* another entry.
C12_LatestValidSetterWins ==
    /\ \A t \in Threads :
          LET r == th[t]
          IN  r.pc = "return" =>
                 /\ r.op \in {"GetProxy", "GetNameProxy"} =>
                       /\ r.ret <=> Latest(r) # <<>>
                       /\ r.ret => r.out = Latest(r)[1]
                       /\ ~r.ret => r.out = OutBefore
                 /\ r.op = "HaveNameProxy" => (r.ret <=> regLatest.nameProxy # <<>>)
    /\ ~Storing =>
          /\ \A net \in Networks : proxyInfo[net] = Holds(regLatest.proxyInfo[net])
          /\ nameProxy = Holds(regLatest.nameProxy)

\* GetProxy returns the second of two endpoints set for its family
C12_Witness ==
    \E t \in Threads :
       /\ th[t].op = "GetProxy" /\ th[t].pc = "return" /\ th[t].ret
       /\ th[t].out = ProxyB
       /\ regLog.proxyInfo[th[t].net] = {ProxyA, ProxyB}

\* C13: IsProxy(addr) is true exactly when addr equals the address of some
\* proxy that has been configured, in every registry state.
C13_IsProxyExact ==
    \A t \in Threads :
       LET r == th[t]
       IN  r.op = "IsProxy" /\ r.pc = "return" =>
              (r.ret <=> \E net \in Networks :
                            /\ regLatest.proxyInfo[net] # <<>>
                            /\ CNetAddrEq(AsNetAddr(r.arg),
                                          AsNetAddr(regLatest.proxyInfo[net][1])))

\* the addresses of the complete arguments of the accepted setter calls
LogAddrs(log) == {AsNetAddr(e) : e \in log}

\* C14: with setters and readers running on different threads, a getter
\* that succeeds returns the complete argument of one earlier setter call
\* for its entry, a getter that fails returns nothing, and every entry that
\* HaveNameProxy or IsProxy looks at is either unset or carries the address
\* of such a complete argument.
C14_NoTornRead ==
    \A t \in Threads :
       LET r == th[t]
       IN  r.pc = "return" =>
              /\ r.op = "GetProxy" =>
                    IF r.ret THEN r.out \in regLog.proxyInfo[r.net] ELSE r.out = OutBefore
              /\ r.op = "GetNameProxy" =>
                    IF r.ret THEN r.out \in regLog.nameProxy ELSE r.out = OutBefore
              /\ r.op = "HaveNameProxy" =>
                    r.obs[1] \in {CNetAddrInit} \cup LogAddrs(regLog.nameProxy)
              /\ r.op = "IsProxy" =>
                    \A k \in 1..Len(r.obs) :
                       r.obs[k] \in {CNetAddrInit} \cup LogAddrs(regLog.proxyInfo[k - 1])

\* a getter returns an endpoint while a setter for the same entry, called
\* with another endpoint, waits for the lock
C14_Witness ==
    \E t \in Threads, u \in Threads :
       /\ th[t].op = "GetProxy" /\ th[t].pc = "return" /\ th[t].ret
       /\ th[u].op = "SetProxy" /\ th[u].pc = "lock" /\ th[u].net = th[t].net
       /\ th[u].arg # th[t].out

(***************************************************************************)
(* Properties of the lookup, parsing and classification functions,         *)
(* checked under SpecCalls                                                 *)
(***************************************************************************)
\* a call of LookupHost or of the list form of Lookup has been made
LookupCall == call.op \in {"LookupHost", "Lookup"}

\* the calls a lookup made outside the process
ExtCalls == {call.ext[i] : i \in 1..Len(call.ext)}

\* a name ending in .onion, a .b32.i2p name or a base64 I2P destination
OverlaySyntax(s) ==
    \/ Len(s) > 6 /\ EndsWith(s, StrDotOnion)
    \/ isValidI2pB32(s)
    \/ isValidI2pAddress(s)

\* getaddrinfo() in either mode; a name handed to it has gone through the
\* numeric parsing before it
GetAddrInfoCalls == {"getaddrinfo", "getaddrinfo_numeric"}

\* C15: a lookup whose input is syntactically an overlay address either
\* gives that one overlay address or fails with no result, and the name is
\* never passed on to numeric parsing or to hostname resolution.
C15_OverlayFailureIsFinal ==
    LookupCall /\ OverlaySyntax(call.pszName) =>
       /\ ExtCalls \cap GetAddrInfoCalls = {}
       /\ IF call.ret
          THEN Len(call.vIP) = 1 /\ (IsTor(call.vIP[1]) \/ IsI2P(call.vIP[1]))
          ELSE call.vIP = <<>>

\* C16: a lookup called with fAllowLookup = false never calls the hostname
\* resolver in resolving mode and never calls the I2P naming service,
\* whatever fNameLookup is.
C16_NoResolverWithoutPermission ==
    LookupCall /\ ~call.fAllowLookup => ExtCalls \cap ResolvingCalls = {}

\* C17, as the code has it: the list a lookup returns holds at most
\* nMaxSolutions entries when nMaxSolutions is positive (0 sets no limit),
\* and a successful lookup returns at least one entry.
C17_AtMostMaxResults ==
    LookupCall =>
       /\ call.nMaxSolutions > 0 => Len(call.vIP) <= call.nMaxSolutions
       /\ call.ret => Len(call.vIP) >= 1

\* C17 as stated: at most nMaxSolutions entries for every value of
\* nMaxSolutions, and at least one entry on success.
C17_AtMostMaxResultsAlways ==
    LookupCall =>
       /\ Len(call.vIP) <= call.nMaxSolutions
       /\ call.ret => Len(call.vIP) >= 1

\* the resolver answered with more addresses than the two asked for
C17_Witness ==
    /\ LookupCall /\ call.ret
    /\ "getaddrinfo" \in ExtCalls
    /\ call.nMaxSolutions = 2 /\ Len(call.vIP) = 2
    /\ call.vIP[2].ip = Zeros(15) \o <<1>>

\* how often ch occurs in s
CountOf(s, ch) == Cardinality({i \in 1..Len(s) : s[i] = ch})

\* s begins with '[' and ends with ']'
Bracketed(s) == Len(s) > 0 /\ s[1] = 91 /\ s[Len(s)] = 93

\* the parts of s before and after its last colon
BeforeLastColon(s) == Take(s, FindLastOf(s, 58, Len(s)) - 1)

AfterLastColon(s) ==
    Sub(s, FindLastOf(s, 58, Len(s)) + 1, Len(s) - FindLastOf(s, 58, Len(s)))

\* s is a non-empty string of decimal digits
IsDigits(s) == s # <<>> /\ \A i \in 1..Len(s) : s[i] \in DigitChars

\* "[::1]:8080" and "::1"
StrLoopback6Port == <<91, 58, 58, 49, 93, 58, 56, 48, 56, 48>>

StrLoopback6 == <<58, 58, 49>>

\* C18: SplitHostPort takes a port, or cuts the input at its last colon, only
\* if the input has exactly one colon or the part before the last colon is
\* bracketed; a bracketed host is returned without its brackets; an input
\* with several colons and no such brackets is returned whole with the port
\* unchanged; example.com:8080 gives (example.com, 8080), [::1]:8080 gives
\* (::1, 8080) and ::1 gives (::1, port unchanged).
C18_PortAfterOneColonOrBrackets ==
    call.op = "SplitHostPort" =>
       LET in == call.in
           n == CountOf(in, 58)
           before == BeforeLastColon(in)
       IN  /\ (call.port # call.portOut \/ (call.host # in /\ ~Bracketed(in)))
                 => n = 1 \/ (n > 1 /\ Bracketed(before))
           /\ Bracketed(in) => call.host = Sub(in, 2, Len(in) - 2)
           /\ (n >= 1 /\ Bracketed(before) /\ IsDigits(AfterLastColon(in)))
                 => call.host = Sub(before, 2, Len(before) - 2)
           /\ (n > 1 /\ ~Bracketed(before) /\ ~Bracketed(in))
                 => call.host = in /\ call.port = call.portOut
           /\ in = StrExampleComPort => call.host = StrExampleCom /\ call.port = 8080
           /\ in = StrLoopback6Port => call.host = StrLoopback6 /\ call.port = 8080
           /\ in = StrLoopback6 => call.host = StrLoopback6 /\ call.port = call.portOut

\* [::1]:8080 has been split
C18_Witness ==
    /\ call.op = "SplitHostPort" /\ call.in = StrLoopback6Port
    /\ call.host = StrLoopback6 /\ call.port = 8080 /\ call.portOut # 8080

\* s without its leading '0' characters
RECURSIVE DropZeros(_)
DropZeros(s) == IF s # <<>> /\ s[1] = 48 THEN DropZeros(Tail(s)) ELSE s

\* C19: after SplitHostPort the port is either the value it had before the
\* call or an integer in 1..65535 equal to the decimal port text; a port text
\* that is a number outside 1..65535 leaves the port as it was.
C19_PortInRangeOrUnchanged ==
    call.op = "SplitHostPort" =>
       LET text == AfterLastColon(call.in)
           a == SkipWhile(text, 1, SpaceChars)
           fSign == a <= Len(text) /\ text[a] \in {43, 45}
           fNeg == fSign /\ text[a] = 45
           b == IF fSign THEN a + 1 ELSE a
           digs == Sub(text, b, Len(text) - b + 1)
           fNumber == CountOf(call.in, 58) > 0 /\ IsDigits(digs)
           m == DropZeros(digs)
           fInRange == /\ ~fNeg /\ m # <<>>
                       /\ Len(m) < 5 \/ (Len(m) = 5 /\ DecValue(m) <= 65535)
       IN  /\ \/ call.port = call.portOut
              \/ call.port \in 1..65535 /\ fNumber /\ fInRange /\ m = DecStr(call.port)
           /\ (fNumber /\ ~fInRange) => call.port = call.portOut

\* C20: for an address without the I2P marker IsValid is false exactly when
\* the 16 bytes are all zero, or begin with the IPv4-mapped prefix shifted by
\* 3 bytes, or lie in 2001:db8::/32, or are the IPv4-mapped 0.0.0.0 or
\* 255.255.255.255; 2001:db8::1 is neither valid nor routable.
C20_InvalidExactly ==
    (call.op = "IsValid" /\ ~IsI2P(call.addr)) =>
       LET ip == call.addr.ip
       IN  /\ ~call.ret <=>
                 \/ ip = Zeros(16)
                 \/ Take(ip, 9) = <<0, 0, 0, 0, 0, 0, 0, 255, 255>>
                 \/ Take(ip, 4) = <<32, 1, 13, 184>>
                 \/ ip = pchIPv4 \o <<0, 0, 0, 0>>
                 \/ ip = pchIPv4 \o <<255, 255, 255, 255>>
           /\ ip = <<32, 1, 13, 184>> \o Zeros(11) \o <<1>> => ~call.ret /\ ~call.fRoutable

\* 2001:db8::1 has been classified
C20_Witness ==
    /\ call.op = "IsValid" /\ ~call.ret /\ ~call.fRoutable
    /\ call.addr.ip = <<32, 1, 13, 184>> \o Zeros(11) \o <<1>>

(***************************************************************************)
(* Properties of the address operations, checked under SpecAddr            *)
(***************************************************************************)
\* C21: SetI2pDestination(s) returns true iff the address is afterwards a
\* valid I2P address (I2P marker and IsValid), and that is the case iff s has
\* exactly the full destination length and ends with the terminator.
C21_SetI2pDestinationIff ==
    obj.op = "SetI2pDestination" =>
        LET fValidI2P == IsI2P(obj.addr) /\ IsValid(obj.addr)
            fWellFormed == /\ Len(obj.arg) = NATIVE_I2P_DESTINATION_SIZE
                           /\ EndsWith(obj.arg, pchAAAA)
        IN  (obj.ret <=> fValidI2P) /\ (fValidI2P <=> fWellFormed)

(***************************************************************************)
(* Properties of classification, grouping, reachability and comparison,    *)
(* checked under SpecCalls                                                 *)
(***************************************************************************)
\* the four address bytes of an IPv4-mapped address, <<>> for any other
IPv4Bytes(a) == IF Take(a.ip, 12) = pchIPv4 THEN Sub(a.ip, 13, 4) ELSE <<>>

\* 10.0.0.0/8, 172.16.0.0/12 or 192.168.0.0/16
InPrivateRange(a) ==
    LET b == IPv4Bytes(a)
    IN  /\ b # <<>>
        /\ \/ b[1] = 10
           \/ b[1] = 172 /\ b[2] \in 16..31
           \/ b[1] = 192 /\ b[2] = 168

\* C22: every IPv4 address in an RFC1918 private range is treated as
\* routable: IsRoutable is true and GetNetwork returns NET_IPV4.
C22_PrivateIPv4Routable ==
    (call.op = "GetNetwork" /\ InPrivateRange(call.addr)) =>
        call.fRoutable /\ call.ret = NET_IPV4

C22_Witness ==
    /\ call.op = "GetNetwork"
    /\ IPv4Bytes(call.addr) = <<172, 31, 255, 255>>
    /\ call.fRoutable
    /\ call.ret = NET_IPV4

\* 192.168.1.5
Addr192_168_1_5 == CNetAddrFromIPv4(<<192, 168, 1, 5>>)

\* C23 as stated: 192.168.1.5 has network family IPv4, its private-range
\* (RFC1918) flag is true, and IsRoutable is false.
C23_PrivateExampleUnroutable ==
    (call.op = "GetNetwork" /\ call.addr = Addr192_168_1_5) =>
        call.ret = NET_IPV4 /\ call.fRFC1918 /\ ~call.fRoutable

\* C23: 192.168.1.5 has network family IPv4, its private-range (RFC1918)
\* flag is true, and IsRoutable is true.
C23_PrivateExampleRoutable ==
    (call.op = "GetNetwork" /\ call.addr = Addr192_168_1_5) =>
        call.ret = NET_IPV4 /\ call.fRFC1918 /\ call.fRoutable

C23_Witness ==
    /\ call.op = "GetNetwork"
    /\ call.addr = Addr192_168_1_5
    /\ call.ret = NET_IPV4

\* C24: every address carrying the Tor marker is valid, routable and of family
\* Tor whatever its 10 payload bytes are; every valid I2P address is routable
\* unless its destination is the node's own destination.
C24_OverlayAddressesRoutable ==
    call.op = "GetNetwork" =>
        /\ Take(call.addr.ip, 6) = pchOnionCat =>
              call.fValid /\ call.fRoutable /\ call.ret = NET_TOR
        /\ (Take(call.addr.ip, 6) = pchGarlicCat /\ call.fValid) =>
              (call.fRoutable <=> I2pBuf(call.addr) # call.myDest)

\* the first 32 bits of an address
First32(a) == Take(a.ip, 4)

\* both addresses of a GetGroup call are IPv6 addresses
BothIPv6 == call.op = "GetGroup" /\ IsIPv6(call.a) /\ IsIPv6(call.b)

\* a routable IPv6 address outside the translation and tunnelling ranges
\* (RFC6145, RFC6052, 6to4, Teredo) and outside 2001:470::/32
PlainIPv6(a) ==
    /\ IsIPv6(a)
    /\ IsRoutable(a, sMyDest)
    /\ ~(IsRFC6145(a) \/ IsRFC6052(a) \/ IsRFC3964(a) \/ IsRFC4380(a))
    /\ First32(a) # <<32, 1, 4, 112>>

\* C25 as stated: GetGroup returns the same key for any two IPv6 addresses
\* that share their first 32 bits, and different keys for two IPv6 addresses
\* whose first 32 bits differ.
C25_GroupBy32BitsAlways ==
    BothIPv6 => (call.retA = call.retB <=> First32(call.a) = First32(call.b))

\* C25: GetGroup returns the same key for two routable IPv6 addresses that
\* share their first 32 bits and different keys when these differ, provided
\* neither is in a translation or tunnelling range nor in 2001:470::/32.
C25_GroupBy32Bits ==
    (BothIPv6 /\ PlainIPv6(call.a) /\ PlainIPv6(call.b)) =>
        (call.retA = call.retB <=> First32(call.a) = First32(call.b))

C25_Witness ==
    /\ BothIPv6
    /\ PlainIPv6(call.a)
    /\ PlainIPv6(call.b)
    /\ call.a # call.b
    /\ First32(call.a) = First32(call.b)
    /\ call.retA = call.retB

\* a call of GetReachabilityFrom with a partner that is not NULL
ReachCall == call.op = "GetReachabilityFrom" /\ call.paddrPartner # <<>>

\* C26: GetReachabilityFrom returns Unreachable for every partner when self
\* is not routable, IPv4 when self is a routable IPv4 address and the partner
\* is an IPv4 address, and Private when self and the partner are Tor addresses.
C26_ReachabilityExamples ==
    call.op = "GetReachabilityFrom" =>
        /\ ~IsRoutable(call.addr, sMyDest) => call.ret = REACH_UNREACHABLE
        /\ (/\ IsRoutable(call.addr, sMyDest)
            /\ Take(call.addr.ip, 12) = pchIPv4
            /\ ReachCall
            /\ Take(call.paddrPartner[1].ip, 12) = pchIPv4) => call.ret = REACH_IPV4
        /\ (/\ Take(call.addr.ip, 6) = pchOnionCat
            /\ ReachCall
            /\ Take(call.paddrPartner[1].ip, 6) = pchOnionCat) => call.ret = REACH_PRIVATE

C26_Witness ==
    /\ ReachCall
    /\ Take(call.addr.ip, 6) = pchOnionCat
    /\ Take(call.paddrPartner[1].ip, 6) = pchOnionCat
    /\ call.addr # call.paddrPartner[1]
    /\ call.ret = REACH_PRIVATE

\* the extended family of a routable address
ExtFamily(a) ==
    IF IsRFC4380(a) THEN "Teredo"
    ELSE IF Take(a.ip, 12) = pchIPv4 THEN "IPv4"
    ELSE IF Take(a.ip, 6) = pchOnionCat THEN "Tor"
    ELSE IF Take(a.ip, 6) = pchGarlicCat THEN "I2P"
    ELSE "IPv6"

\* self and a known partner are routable and their extended families are not
\* IPv4 with IPv4, IPv6 with IPv6, Tor with Tor or I2P with I2P
OtherCombination ==
    /\ ReachCall
    /\ IsRoutable(call.addr, sMyDest)
    /\ IsRoutable(call.paddrPartner[1], sMyDest)
    /\ ~(/\ ExtFamily(call.addr) = ExtFamily(call.paddrPartner[1])
         /\ ExtFamily(call.addr) \in {"IPv4", "IPv6", "Tor", "I2P"})

\* C27 as stated: for a routable self and a routable, known partner, every
\* combination of extended families other than IPv4 with IPv4, IPv6 with IPv6,
\* Tor with Tor and I2P with I2P scores Default.
C27_OtherCombinationsDefault == OtherCombination => call.ret = REACH_DEFAULT

\* C27: such a combination scores Default, except that an IPv4 self scores IPv4
\* with an IPv6, Tor or Teredo partner, a Teredo self scores Teredo with an
\* IPv6 or Teredo partner, an IPv6 self scores IPv6Weak with a Teredo partner,
\* and a self that is not I2P scores Unreachable with an I2P partner.
C27_OtherCombinationsTable ==
    OtherCombination =>
        LET fs == ExtFamily(call.addr)
            fp == ExtFamily(call.paddrPartner[1])
        IN  call.ret =
              IF fp = "I2P" THEN REACH_UNREACHABLE
              ELSE IF fs = "IPv4" /\ fp \in {"IPv6", "Tor", "Teredo"} THEN REACH_IPV4
              ELSE IF fs = "Teredo" /\ fp \in {"IPv6", "Teredo"} THEN REACH_TEREDO
              ELSE IF fs = "IPv6" /\ fp = "Teredo" THEN REACH_IPV6_WEAK
              ELSE REACH_DEFAULT

C27_Witness ==
    /\ OtherCombination
    /\ ExtFamily(call.addr) = "Tor"
    /\ ExtFamily(call.paddrPartner[1]) = "IPv4"
    /\ call.ret = REACH_DEFAULT

\* a call that compares two endpoints
CompareCall == call.op = "compare"

\* the destination buffer is a well-formed native destination
NativeDest(e) == Sub(I2pBuf(e), NATIVE_I2P_DESTINATION_SIZE - 3, 4) = pchAAAA

\* the results of comparing a with b
Compared(a, b) == <<CServiceEq(a, b), CServiceNe(a, b), CServiceLt(a, b)>>

\* C28: when at least one of two endpoints is native I2P, ==, != and < depend
\* only on the destinations: two native endpoints with one destination are
\* equal whatever their ports and 16-byte values are, and a native endpoint
\* never equals one that is not.  When neither is native I2P, endpoints compare
\* by address and then by port.  Always a != b is the negation of a == b.
C28_EndpointComparison ==
    CompareCall =>
        LET a == call.a
            b == call.b
        IN  /\ call.ne = ~call.eq
            /\ (NativeDest(a) \/ NativeDest(b)) =>
                 /\ \A a2 \in CompareArgs, b2 \in CompareArgs :
                       (I2pBuf(a2) = I2pBuf(a) /\ I2pBuf(b2) = I2pBuf(b)) =>
                           Compared(a2, b2) = <<call.eq, call.ne, call.lt>>
                 /\ (NativeDest(a) /\ NativeDest(b) /\ I2pBuf(a) = I2pBuf(b)) => call.eq
                 /\ NativeDest(a) # NativeDest(b) => ~call.eq
            /\ (~NativeDest(a) /\ ~NativeDest(b)) =>
                 /\ call.eq = (a.ip = b.ip /\ I2pBuf(a) = I2pBuf(b) /\ a.port = b.port)
                 /\ call.lt = \/ MemLess(a.ip \o I2pBuf(a), b.ip \o I2pBuf(b))
                              \/ (a.ip = b.ip /\ I2pBuf(a) = I2pBuf(b) /\ a.port < b.port)

C28_Witness ==
    /\ CompareCall
    /\ NativeDest(call.a)
    /\ I2pBuf(call.a) = I2pBuf(call.b)
    /\ call.a.port # call.b.port
    /\ call.a.ip # call.b.ip
    /\ call.eq
    /\ ~call.ne

(***************************************************************************)
(* ConnectSocketByName beside SetNameProxy, checked under Spec             *)
(***************************************************************************)
\* ConnectSocketByName has called ConnectSocketDirectly for its name proxy
NameProxyDialed ==
    /\ frame.op = "ConnectSocketByName"
    /\ ~InConnectSocket
    /\ "ConnectSocketDirectly" \in CallsMade

\* C29: when ConnectSocketByName runs beside SetNameProxy on another thread,
\* the endpoint it dials as name proxy is always an endpoint that SetNameProxy
\* stored in the registry, never a default (never-set) endpoint.
C29_DialsStoredNameProxy ==
    NameProxyDialed =>
        /\ frame.nameProxy \in {e \in NameProxyArgs : IsValid(e)}
        /\ \A h \in DOMAIN sockets : <<sockets[h].peer>> # GetSockAddr(CServiceInit)

(***************************************************************************)
(* The destination buffer and the I2P marker, checked under SpecAddr       *)
(***************************************************************************)
\* C30: after any sequence of address operations (construction from IPv4 or
\* IPv6 bytes, SetIP, SetSpecial, SetI2pDestination) on one address object, an
\* address whose destination buffer is a well-formed native destination also
\* carries the I2P marker, hence the assertion in CService::GetKey never fails.
C30_NativeCarriesMarker ==
    /\ NativeDest(obj.addr) => Take(obj.addr.ip, 6) = pchGarlicCat
    /\ obj.op # "abort"

(***************************************************************************)
(* Destinations that are not routable                                      *)
(***************************************************************************)
\* the destination of the dialing call carries no I2P marker and is not routable
NonRoutableDest == ~IsI2P(frame.addrDest) /\ ~IsRoutable(frame.addrDest, sMyDest)

\* the state ConnectSocket returns in for such a destination: it connected to
\* the destination itself and ran no SOCKS5 exchange, unless it had read a proxy
\* from the Unroutable slot of the table
C31_DialedDirectly ==
    IF ~IsValid(frame.proxy)
    THEN /\ CSCalls = <<"GetProxy", "ConnectSocketDirectly">>
         /\ OnlyTcpTo(frame.addrDest)
         /\ NoSocks5Traffic
    ELSE /\ frame.proxy \in {ProxyA, ProxyB}
         /\ OnlyTcpTo(frame.proxy)

\* the step that looks the proxy up reads the Unroutable slot and no other
C31_UnroutableSlotRead ==
    /\ pc' = "CS_Proxy" <=> IsValid(proxyInfo[NET_UNROUTABLE])
    /\ pc' = "CS_Direct" <=> ~IsValid(proxyInfo[NET_UNROUTABLE])
    /\ pc' = "CS_Proxy" => frame'.proxy = proxyInfo[NET_UNROUTABLE]

FallbackScores ==
    /\ call.op = "CompareReachability"
    /\ call.paddrPartner # <<>> => ~IsRoutable(call.paddrPartner[1], sMyDest)
    /\ IsRoutable(call.a, sMyDest)
    /\ IsRoutable(call.b, sMyDest)

\* the place of a family in the order Teredo, IPv6, IPv4, Tor or I2P
PlaceInOrder(family) ==
    CASE family = "Teredo" -> 1
      [] family = "IPv6" -> 2
      [] family = "IPv4" -> 3
      [] OTHER -> 4

\* C32 as stated: for an unroutable or unknown partner a Teredo self scores
\* higher than an IPv6 self, which scores higher than an IPv4 self, which
\* scores higher than a Tor or I2P self.
C32_FallbackOrderAsStated ==
    (FallbackScores /\ PlaceInOrder(ExtFamily(call.a)) < PlaceInOrder(ExtFamily(call.b)))
        => call.retA > call.retB

\* C32: for an unroutable or unknown partner a Tor or I2P self scores Private,
\* an IPv4 self IPv4, an IPv6 self IPv6Weak and a Teredo self Teredo; with
\* higher scores more preferred, a Tor or I2P self scores higher than an IPv4
\* self, which scores higher than an IPv6 self, which scores higher than a
\* Teredo self, and every one of them scores higher than Default.
C32_FallbackOrder ==
    FallbackScores =>
        /\ call.retA = CASE ExtFamily(call.a) = "Teredo" -> REACH_TEREDO
                         [] ExtFamily(call.a) = "IPv6" -> REACH_IPV6_WEAK
                         [] ExtFamily(call.a) = "IPv4" -> REACH_IPV4
                         [] OTHER -> REACH_PRIVATE
        /\ call.retA > REACH_DEFAULT
        /\ PlaceInOrder(ExtFamily(call.a)) < PlaceInOrder(ExtFamily(call.b))
              => call.retA < call.retB
        /\ PlaceInOrder(ExtFamily(call.a)) = PlaceInOrder(ExtFamily(call.b))
              => call.retA = call.retB

\* a Teredo candidate and an IPv6 candidate were scored for a NULL partner
C32_Witness ==
    /\ FallbackScores
    /\ call.paddrPartner = <<>>
    /\ ExtFamily(call.a) = "Teredo"
    /\ ExtFamily(call.b) = "IPv6"
    /\ call.retA = REACH_TEREDO
    /\ call.retB = REACH_IPV6_WEAK

(***************************************************************************)
(* Groups of addresses that embed an IPv4 address                          *)
(***************************************************************************)
\* b XOR 0xff for a byte b
XorFF(b) == 255 - b

\* the IPv4 address a.b.c.d an address stands for, as <<a, b, c, d>>: the
\* IPv4 address itself, the last four bytes of a translated address
\* (64:ff9b::/96, ::ffff:0:0:0/96), bytes 2..5 of a 6to4 address (2002::/16),
\* the last four bytes XOR ff.ff.ff.ff of a Teredo address (2001:0::/32);
\* <<>> for every other address
EmbeddedIPv4(a) ==
    IF \/ Take(a.ip, 12) = pchIPv4
       \/ Take(a.ip, 12) = <<0, 100, 255, 155>> \o Zeros(8)
       \/ Take(a.ip, 12) = Zeros(8) \o <<255, 255, 0, 0>>
    THEN Sub(a.ip, 13, 4)
    ELSE IF Take(a.ip, 2) = <<32, 2>> THEN Sub(a.ip, 3, 4)
    ELSE IF Take(a.ip, 4) = <<32, 1, 0, 0>> THEN [i \in 1..4 |-> XorFF(a.ip[12 + i])]
    ELSE <<>>

\* a call of GetGroup on two routable addresses
RoutableGroupCall ==
    /\ call.op = "GetGroup"
    /\ IsRoutable(call.a, sMyDest)
    /\ IsRoutable(call.b, sMyDest)

\* C33: for routable addresses GetGroup returns the key <<NET_IPV4, a, b>> for
\* the IPv4 address a.b.c.d, for a NAT64 or SIIT translated address with
\* a.b.c.d in its last four bytes, for a 6to4 address with a.b.c.d in bytes
\* 2..5 and for a Teredo address whose last four bytes are a.b.c.d XOR
\* ff.ff.ff.ff; two such addresses with the same a.b get the same key.
C33_EmbeddedIPv4SameGroup ==
    RoutableGroupCall =>
        LET ea == EmbeddedIPv4(call.a)
            eb == EmbeddedIPv4(call.b)
        IN  /\ ea # <<>> => call.retA = <<NET_IPV4, ea[1], ea[2]>>
            /\ (ea # <<>> /\ eb # <<>> /\ Take(ea, 2) = Take(eb, 2)) => call.retA = call.retB

\* the IPv4 address 1.2.3.4 and the Teredo address that carries it got the
\* same key
C33_Witness ==
    /\ RoutableGroupCall
    /\ call.a = CNetAddrFromIPv4(<<1, 2, 3, 4>>)
    /\ Take(call.b.ip, 4) = <<32, 1, 0, 0>>
    /\ EmbeddedIPv4(call.b) = <<1, 2, 3, 4>>
    /\ call.retA = <<NET_IPV4, 1, 2>>
    /\ call.retB = call.retA

(***************************************************************************)
(* The group of local and other unroutable addresses                       *)
(***************************************************************************)
\* an IPv4 address 127.x.x.x or 0.x.x.x, or ::1
LocalAddress(a) ==
    \/ Take(a.ip, 12) = pchIPv4 /\ a.ip[13] \in {127, 0}
    \/ a.ip = Zeros(15) \o <<1>>

\* the address carries no I2P marker
NoI2pMarker(a) == Take(a.ip, 6) # pchGarlicCat

\* C34: GetGroup returns the one-byte key <<NET_UNROUTABLE>> for every local
\* address without the I2P marker (127.x.x.x, 0.x.x.x, ::1) and for every
\* other address without the I2P marker that is not routable; no key it
\* returns starts with the local class 255.
C34_UnroutableOneGroup ==
    call.op = "GetGroup" =>
        /\ (NoI2pMarker(call.a) /\ (LocalAddress(call.a) \/ ~IsRoutable(call.a, sMyDest)))
              => call.retA = <<NET_UNROUTABLE>>
        /\ (/\ NoI2pMarker(call.a) /\ NoI2pMarker(call.b)
            /\ LocalAddress(call.a) \/ ~IsRoutable(call.a, sMyDest)
            /\ LocalAddress(call.b) \/ ~IsRoutable(call.b, sMyDest)) => call.retA = call.retB
        /\ call.retA[1] # 255
        /\ call.retB[1] # 255

\* 127.0.0.1 and the link-local fe80::1 got the same one-byte key
C34_Witness ==
    /\ call.op = "GetGroup"
    /\ call.a = CNetAddrFromIPv4(<<127, 0, 0, 1>>)
    /\ Take(call.b.ip, 2) = <<254, 128>>
    /\ call.retA = <<NET_UNROUTABLE>>
    /\ call.retB = call.retA

(***************************************************************************)
(* Equality of endpoints and equality of their keys                        *)
(***************************************************************************)
\* two endpoints were compared and GetKey returned for both
KeysCompared ==
    /\ call.op = "CompareKeys"
    /\ ~call.keyA.abort
    /\ ~call.keyB.abort

\* C35: for two endpoints a and b built by the address operations, a == b
\* holds iff GetKey(a) equals GetKey(b).
C35_EqualIffSameKey == KeysCompared => (call.eq <=> call.keyA.vKey = call.keyB.vKey)

(***************************************************************************)
(* ConnectSocketByName with a host that resolves locally                   *)
(***************************************************************************)
\* ConnectSocketByName is past its resolving step
PastResolve ==
    frame.op = "ConnectSocketByName" /\ pc \notin {"idle", "BN_Start", "BN_Resolve"}

\* the endpoint, as <<e>>, that a name of the model resolves to without any
\* call out of the process: a numeric address or a .onion name; <<>> for a name
\* whose resolution is up to the resolver or the I2P router
ResolvesTo(pszDest, portDefault) ==
    CASE pszDest = StrIPv4 -> <<CService(AsNetAddr(AddrIPv4), portDefault)>>
      [] pszDest = StrIPv6Port -> <<CService(AsNetAddr(AddrIPv6), 8333)>>
      [] pszDest = StrOnion -> <<CService(AsNetAddr(AddrTor), portDefault)>>
      [] OTHER -> <<>>

\* the call was handed on to ConnectSocket with the resolved endpoint, which is
\* also what the caller's addr holds; the name proxy was not asked for again,
\* and every socket is what ConnectSocket opened for the endpoint
C36_HandedToConnectSocket ==
    /\ IsValid(frame.addr)
    /\ frame.addrDest = frame.addr
    /\ CallsMade \cap {"HaveNameProxy"} = {}
    /\ \A i \in 1..Len(CSCalls) :
          CSCalls[i] \in {"GetProxy", "ConnectSocketDirectly", "Socks5", "I2PSession.connect"}
    /\ frame.proxy \in {CServiceInit, ProxyA}
    /\ \A h \in DOMAIN sockets :
          \/ sockets[h].kind = "i2p"
          \/ <<sockets[h].peer>> = GetSockAddr(IF IsValid(frame.proxy) THEN frame.proxy
                                               ELSE frame.addrDest)
    /\ pc = "Done" =>
          /\ C3_PathTaken
          /\ frame.result = "ok" =>
                /\ frame.hSocketRet = Len(sockets)
                /\ sockets[frame.hSocketRet].open

\* C36: if the host given to ConnectSocketByName resolves locally to a valid
\* endpoint, the call returns what ConnectSocket returns for that endpoint and
\* the caller's addr is the resolved endpoint; the name proxy is not dialed in
\* that call, also when the connection attempt fails and a name proxy is set.
C36_ResolvedNeverNameProxy ==
    PastResolve =>
        /\ InConnectSocket <=> IsValid(frame.addr)
        /\ ResolvesTo(frame.pszDest, frame.portDefault) # <<>> =>
              /\ InConnectSocket
              /\ frame.addr = ResolvesTo(frame.pszDest, frame.portDefault)[1]
        /\ InConnectSocket => C36_HandedToConnectSocket

\* "93.184.216.34" was resolved with a name proxy set, the connection attempt
\* to 93.184.216.34:9377 failed and the call returned failure
C36_Witness ==
    /\ PastResolve
    /\ pc = "Done"
    /\ frame.pszDest = StrIPv4
    /\ frame.nameProxy = ProxyB
    /\ frame.addr = AddrIPv4
    /\ frame.result = "fail"
    /\ Len(sockets) = 1
    /\ <<sockets[1].peer>> = GetSockAddr(AddrIPv4)
    /\ ~sockets[1].open

(***************************************************************************)
(* .onion names                                                            *)
(***************************************************************************)
\* the part of a name before its last six characters
OnionLabel(strName) == Take(strName, Len(strName) - 6)

\* the base32 characters: a to z and 2 to 7
Base32Chars == (97..122) \cup (50..55)

\* the five bits a base32 character stands for
FiveBits(c) == IF c \in 97..122 THEN c - 97 ELSE c - 24

\* the five bytes that eight base32 characters spell
FiveBytes(s8) ==
    LET d == [i \in 1..8 |-> FiveBits(s8[i])]
    IN  <<d[1] * 8 + d[2] \div 4,
          (d[2] % 4) * 64 + d[3] * 2 + d[4] \div 16,
          (d[4] % 16) * 16 + d[5] \div 2,
          (d[5] % 2) * 128 + d[6] * 4 + d[7] \div 8,
          (d[7] % 8) * 32 + d[8]>>

\* SetSpecial was called with a name that ends with ".onion"
OnionCall ==
    /\ call.op = "SetSpecial"
    /\ Len(call.strName) >= 6
    /\ Sub(call.strName, Len(call.strName) - 5, 6) = StrDotOnion

PeerSamples == Tail(td.vTimeOffsets)

\* the samples the filter held when the median was last taken, which is at
\* every odd size from 5 on, that is at every even number of samples from 4 on
SamplesAtMedian == SubSeq(PeerSamples, 1, 2 * (Len(PeerSamples) \div 2))

\* x is one of the samples and at most half of them are below it and at most
\* half of them are above it
IsMedianOf(x, samples) ==
    /\ \E i \in 1..Len(samples) : samples[i] = x
    /\ 2 * Cardinality({i \in 1..Len(samples) : samples[i] < x}) <= Len(samples)
    /\ 2 * Cardinality({i \in 1..Len(samples) : samples[i] > x}) <= Len(samples)

C38_OffsetZeroOrBoundedMedian ==
    \/ td.nTimeOffset = 0
    \/ /\ -2100 < td.nTimeOffset /\ td.nTimeOffset < 2100
       /\ Len(PeerSamples) >= 4
       /\ IsMedianOf(td.nTimeOffset, SamplesAtMedian)

\* a step that leaves setKnown as it was is a call with an address already
\* seen, since a call with a new address puts it into setKnown
C38_SeenAddressStep ==
    td'.setKnown = td.setKnown =>
        td'.vTimeOffsets = td.vTimeOffsets /\ td'.nTimeOffset = td.nTimeOffset

C38_WarnedAtMostOnce == td.nMessageBoxes <= 1

\* C38: after any sequence of AddTimeData calls nTimeOffset is 0 or a median
\* of the samples of the peers that is less than 2100 seconds from 0; a call
\* with an address already seen changes neither the samples nor nTimeOffset;
\* ThreadSafeMessageBox is called with the clock warning at most once.
C38_TimeOffsetBounded ==
    /\ [](C38_OffsetZeroOrBoundedMedian /\ C38_WarnedAtMostOnce)
    /\ [][C38_SeenAddressStep]_vars

\* the warning was sent when the median of five values was out of range, the
\* median of seven values was taken since and is a sample of a peer, and the
\* last call came with an address already seen
C38_Witness ==
    /\ td.nMessageBoxes = 1
    /\ Len(td.vTimeOffsets) = 7
    /\ td.nTimeOffset = 120
    /\ td.op = "AddTimeData"
    /\ ~td.fInserted
=============================================================================
